---- MODULE Spec2Model ----
(***************************************************************************)
(* Model of the 2FA code acquisition of playwright-runner.cjs (the job    *)
(* driver main, waitFor2faCode, get2faCodeFromImap, scanMailbox, findCode) *)
(* and of the code extraction of Env-smoke.test.js (fetchNewestMfaCode).   *)
(*                                                                         *)
(* Text is a sequence of one-character strings.  The token "ZW" stands for *)
(* one zero-width character (U+200B..U+200D, U+FEFF).  JavaScript's null   *)
(* and '' (both falsy) are the empty sequence.  Times are milliseconds     *)
(* counted from a model epoch.                                             *)
(***************************************************************************)
EXTENDS Integers, Sequences, FiniteSets, TLC

VARIABLES
  tin,        \* the haystack or the message an extractor is called on
  tout        \* what that extractor gave: [by, code]

\* ------------------------------------------------------------------ text

Digit == {"0", "1", "2", "3", "4", "5", "6", "7", "8", "9"}

\* what \s matches
WhiteSpace == {" ", "\n", "\t"}

ZeroWidth == {"ZW"}

\* what [\s-] matches
Separator == WhiteSpace \cup {"-"}

NoCode == <<>>

RECURSIVE Filter(_, _)
Filter(s, keep) ==
  IF s = <<>> THEN <<>>
  ELSE IF Head(s) \in keep THEN <<Head(s)>> \o Filter(Tail(s), keep)
       ELSE Filter(Tail(s), keep)

RECURSIVE DropZeroWidth(_)
DropZeroWidth(s) ==
  IF s = <<>> THEN <<>>
  ELSE IF Head(s) \in ZeroWidth THEN DropZeroWidth(Tail(s))
       ELSE <<Head(s)>> \o DropZeroWidth(Tail(s))

\* .replace(/\s+/g, ' ')
RECURSIVE CollapseSpace(_)
CollapseSpace(s) ==
  IF s = <<>> THEN <<>>
  ELSE IF Head(s) \in WhiteSpace
       THEN IF Len(s) > 1 /\ s[2] \in WhiteSpace
            THEN CollapseSpace(Tail(s))
            ELSE <<" ">> \o CollapseSpace(Tail(s))
       ELSE <<Head(s)>> \o CollapseSpace(Tail(s))

\* .trim()
RECURSIVE TrimLeft(_)
TrimLeft(s) ==
  IF s # <<>> /\ Head(s) \in WhiteSpace THEN TrimLeft(Tail(s)) ELSE s

RECURSIVE TrimRight(_)
TrimRight(s) ==
  IF s # <<>> /\ s[Len(s)] \in WhiteSpace
  THEN TrimRight(SubSeq(s, 1, Len(s) - 1)) ELSE s

Trim(s) == TrimRight(TrimLeft(s))

normalizeDigits(s) == Trim(CollapseSpace(DropZeroWidth(s)))

\* \s* in the place of [\s-]*
RECURSIVE SkipSepsSpaceOnly(_, _)
SkipSepsSpaceOnly(text, p) ==
  IF p <= Len(text) /\ text[p] \in WhiteSpace
  THEN SkipSepsSpaceOnly(text, p + 1) ELSE p

\* first position >= p of text that holds no separator
RECURSIVE SkipSeps(_, _)
SkipSeps(text, p) ==
  IF p <= Len(text) /\ text[p] \in Separator THEN SkipSeps(text, p + 1) ELSE p

\* position after k greedy groups \d[\s-]* read from p, 0 when a group
\* finds no digit
RECURSIVE ConsumeGroups(_, _, _)
ConsumeGroups(text, p, k) ==
  IF k = 0 THEN p
  ELSE IF p > Len(text) \/ text[p] \notin Digit THEN 0
       ELSE ConsumeGroups(text, SkipSeps(text, p + 1), k - 1)

\* the pattern without its (?!\d)
MatchEndNoLookahead(text, i, n) ==
  IF i > 1 /\ text[i - 1] \in Digit THEN 0
  ELSE LET q == ConsumeGroups(text, i, n)
       IN  IF q = 0 THEN 0 ELSE q - 1

\* last position of the match of (?<!\d)(?:\d[\s-]*){n}(?!\d) that starts
\* at i, 0 when there is none.  The last group gives one separator back
\* when the greedy match stops in front of a digit.
MatchEnd(text, i, n) ==
  IF i > 1 /\ text[i - 1] \in Digit THEN 0
  ELSE LET q == ConsumeGroups(text, i, n)
       IN  IF q = 0 THEN 0
           ELSE IF q > Len(text) \/ text[q] \notin Digit THEN q - 1
           ELSE IF text[q - 1] \in Separator THEN q - 2
           ELSE 0

\* start of the leftmost match at or after position from, 0 when none
RECURSIVE NextMatch(_, _, _)
NextMatch(text, from, n) ==
  IF from > Len(text) THEN 0
  ELSE IF MatchEnd(text, from, n) # 0 THEN from
  ELSE NextMatch(text, from + 1, n)

\* findCode returning the matched text m[0] as it stands
FindFromMatch(text, from, codeLen) ==
  LET i == NextMatch(text, from, codeLen)
  IN  IF i = 0 THEN NoCode ELSE SubSeq(text, i, MatchEnd(text, i, codeLen))

\* the while loop of findCode over pattern.exec
RECURSIVE FindFrom(_, _, _)
FindFrom(text, from, codeLen) ==
  LET i == NextMatch(text, from, codeLen)
  IN  IF i = 0 THEN NoCode
      ELSE LET e          == MatchEnd(text, i, codeLen)
               onlyDigits == Filter(SubSeq(text, i, e), Digit)
           IN  IF Len(onlyDigits) = codeLen THEN onlyDigits
               ELSE FindFrom(text, e + 1, codeLen)

findCode(haystack, codeLen) == FindFrom(normalizeDigits(haystack), 1, codeLen)

\* pattern.lastIndex when the while loop of findCode is left: the end of the
\* match returned, 0 after the exec that found nothing
RECURSIVE LastIndexAfter(_, _, _)
LastIndexAfter(text, from, codeLen) ==
  LET i == NextMatch(text, from, codeLen)
  IN  IF i = 0 THEN 0
      ELSE LET e          == MatchEnd(text, i, codeLen)
               onlyDigits == Filter(SubSeq(text, i, e), Digit)
           IN  IF Len(onlyDigits) = codeLen THEN e
               ELSE LastIndexAfter(text, e + 1, codeLen)

\* one pattern object kept from call to call
SharedPatternLastIndex(left) == left

\* const pattern = new RegExp(..., 'g') in the body of findCode: lastIndex
\* of the pattern a call starts with, left being what the call before left
\* in its own pattern
NewPatternLastIndex(left) == 0

\* findCode called after a call that left its pattern at lastIndex left
findCodeAfter(haystack, codeLen, left) ==
  FindFrom(normalizeDigits(haystack), NewPatternLastIndex(left) + 1, codeLen)

\* ------------------------------------------------------------------ html

\* the letters the entity names are written with, folded by the i flag
Lower(c) ==
  CASE c = "N" -> "n" [] c = "B" -> "b" [] c = "S" -> "s" [] c = "P" -> "p"
    [] c = "A" -> "a" [] c = "M" -> "m" [] c = "L" -> "l" [] c = "T" -> "t"
    [] c = "G" -> "g" [] c = "F" -> "f" [] c = "H" -> "h" [] c = "I" -> "i"
    [] OTHER -> c

\* pat (lower case) is found in s at position i, letter case ignored
MatchesAt(s, i, pat) ==
  /\ i + Len(pat) - 1 <= Len(s)
  /\ \A k \in 1..Len(pat) : Lower(s[i + k - 1]) = pat[k]

\* s.replace(/pat/gi, rep)
RECURSIVE ReplaceAll(_, _, _)
ReplaceAll(s, pat, rep) ==
  IF s = <<>> THEN <<>>
  ELSE IF MatchesAt(s, 1, pat)
       THEN rep \o ReplaceAll(SubSeq(s, Len(pat) + 1, Len(s)), pat, rep)
       ELSE <<Head(s)>> \o ReplaceAll(Tail(s), pat, rep)

\* position of the first ">" of s at or after p, 0 when none
RECURSIVE FirstGt(_, _)
FirstGt(s, p) ==
  IF p > Len(s) THEN 0
  ELSE IF s[p] = ">" THEN p
  ELSE FirstGt(s, p + 1)

\* s.replace(/<[^>]+>/g, ' ')
RECURSIVE StripTags(_)
StripTags(s) ==
  IF s = <<>> THEN <<>>
  ELSE LET j == FirstGt(s, 2)
       IN  IF Head(s) = "<" /\ j >= 3
           THEN <<" ">> \o StripTags(SubSeq(s, j + 1, Len(s)))
           ELSE <<Head(s)>> \o StripTags(Tail(s))

stripHtml(html) ==
  StripTags(
    ReplaceAll(
      ReplaceAll(
        ReplaceAll(
          ReplaceAll(html, <<"&", "n", "b", "s", "p", ";">>, <<" ">>),
          <<"&", "a", "m", "p", ";">>, <<"&">>),
        <<"&", "l", "t", ";">>, <<"<">>),
      <<"&", "g", "t", ";">>, <<">">>))

\* new RegExp(filter, 'i').test(s) for a filter that is literal text
RegExpTest(filter, s) ==
  \E i \in 1..(Len(s) + 1) :
    /\ i + Len(filter) - 1 <= Len(s)
    /\ \A k \in 1..Len(filter) : Lower(s[i + k - 1]) = Lower(filter[k])

\* ------------------------------------------------------------------ bounds

\* most messages held by the mailboxes of one account, all mailboxes together
MaxMsgs == 2

\* longest run of digits in a haystack handed to findCode on its own
MaxRun == 9

\* ------------------------------------------------------------------ mail

MinuteMs == 60 * 1000

DayMs == 24 * 60 * 60 * 1000

\* the calendar day of a time: SEARCH SINCE compares days, not times
DateOf(t) == t \div DayMs

\* the time the 2FA step runs at: noon of the third day of the model epoch
JobTime == 2 * DayMs + 12 * 60 * MinuteMs

\* numEnv('MFA_READY_WAIT_MS', 1000)
MfaReadyWaitMs == 1000

\* the time the process starts at
StartTime == JobTime - MfaReadyWaitMs

RunA == <<"1", "2", "3", "4", "5", "6", "7", "8", "9">>

RunB == <<"9", "8", "7", "6", "5", "4", "3", "2", "1">>

CodeA(n) == SubSeq(RunA, 1, n)

CodeB(n) == SubSeq(RunB, 1, n)

SubjMfa == <<"M", "F", "A">>

SubjOther == <<"H", "i">>

Sender == <<"q", "s">>

Msg(age, subject, text, html, raw, parseOk, fetch) ==
  [idate |-> JobTime - age * MinuteMs, subject |-> subject, from |-> Sender,
   text |-> text, html |-> html, raw |-> raw, parseOk |-> parseOk,
   fetch |-> fetch]

\* the messages a mailbox may hold when the portal sends codes of n digits
MsgKinds(n) ==
  { \* 59 minutes old, the code in the plain text
    Msg(59, SubjMfa, <<"c", " ">> \o CodeA(n), <<>>, CodeA(n), TRUE, "ok"),
    \* 61 minutes old
    Msg(61, SubjMfa, CodeB(n), <<>>, CodeB(n), TRUE, "ok"),
    \* of the day before
    Msg(1500, SubjMfa, CodeB(n), <<>>, CodeB(n), TRUE, "ok"),
    \* another subject
    Msg(59, SubjOther, CodeB(n), <<>>, CodeB(n), TRUE, "ok"),
    \* the code in the HTML part only, written with separators
    Msg(59, SubjMfa, <<"h", "i">>,
        <<"<", "b", ">">> \o SubSeq(CodeB(n), 1, 2) \o <<"-", "\n">>
          \o SubSeq(CodeB(n), 3, n) \o <<"<", "/", "b", ">">>,
        <<"=", "\n">>, TRUE, "ok"),
    \* one digit too many in the text, the code in the subject
    Msg(59, SubjMfa \o <<" ">> \o CodeA(n), CodeB(n + 1), <<>>, <<>>, TRUE, "ok"),
    \* no code in any part, one in the raw source
    Msg(59, SubjMfa, <<"h", "i">>, <<>>, <<"x", " ">> \o CodeB(n) \o <<"ZW">>,
        TRUE, "ok"),
    \* the parser rejects the source
    Msg(59, SubjMfa, <<>>, <<>>, CodeB(n), FALSE, "ok"),
    \* fetchOne finds no such message
    Msg(59, SubjMfa, CodeB(n), <<>>, CodeB(n), TRUE, "missing"),
    \* fetchOne fails
    Msg(59, SubjMfa, CodeB(n), <<>>, CodeB(n), TRUE, "throw") }

MailboxNames == <<"INBOX", "AllMail">>

RECURSIVE SeqsUpTo(_, _)
SeqsUpTo(S, n) ==
  IF n = 0 THEN {<<>>}
  ELSE LET shorter == SeqsUpTo(S, n - 1)
       IN  shorter \cup {Append(q, x) : q \in {r \in shorter : Len(r) = n - 1}, x \in S}

\* ------------------------------------------------------------------ scanMailbox

\* uids of the messages since the calendar day of t, in ascending order
RECURSIVE SearchSince(_, _, _)
SearchSince(msgs, t, uid) ==
  IF uid > Len(msgs) THEN <<>>
  ELSE (IF DateOf(msgs[uid].idate) >= DateOf(t) THEN <<uid>> ELSE <<>>)
         \o SearchSince(msgs, t, uid + 1)

\* uids the X-GM-RAW search newer_than: subject: from: answers with
RECURSIVE SearchGmailRaw(_, _, _, _, _)
SearchGmailRaw(msgs, t, subjFilter, fromFilter, uid) ==
  IF uid > Len(msgs) THEN <<>>
  ELSE (IF /\ msgs[uid].idate >= t
           /\ (subjFilter = <<>> \/ RegExpTest(subjFilter, msgs[uid].subject))
           /\ (fromFilter = <<>> \/ RegExpTest(fromFilter, msgs[uid].from))
        THEN <<uid>> ELSE <<>>)
         \o SearchGmailRaw(msgs, t, subjFilter, fromFilter, uid + 1)

Reverse(q) == [i \in 1..Len(q) |-> q[Len(q) + 1 - i]]

\* uids.slice(0, maxScan): the oldest first
OldestFirst(uids, maxScan) ==
  SubSeq(uids, 1, IF Len(uids) > maxScan THEN maxScan ELSE Len(uids))

\* uids.slice(-maxScan).reverse()
NewestFirst(uids, maxScan) ==
  Reverse(SubSeq(uids, IF Len(uids) > maxScan THEN Len(uids) - maxScan + 1 ELSE 1,
                 Len(uids)))

\* every message of the mailbox taken when the searches answer nothing
SearchUidsFallback(msgs, c, cutoffMs) ==
  LET uids == IF c.useGmailRaw
              THEN SearchGmailRaw(msgs, cutoffMs, c.subjFilter, c.fromFilter, 1)
              ELSE SearchSince(msgs, cutoffMs, 1)
  IN  IF uids = <<>> THEN [i \in 1..Len(msgs) |-> i] ELSE uids

\* the candidates of one mailbox, before the cap
SearchUids(msgs, c, cutoffMs) ==
  IF c.useGmailRaw
  THEN SearchGmailRaw(msgs, cutoffMs, c.subjFilter, c.fromFilter, 1)
  ELSE LET uids == SearchSince(msgs, cutoffMs, 1)
       IN  IF uids = <<>> THEN SearchSince(msgs, cutoffMs - DayMs, 1) ELSE uids

\* skip.old measured against the widened search date
TooOldWidened(m, cutoffMs) == m.idate < cutoffMs - DayMs

\* skip.old
TooOld(m, cutoffMs) == m.idate < cutoffMs

\* the first run of as many digits as IMAP_CODE_REGEX asks for, looked for
\* in subject, text and stripped HTML before the parts are tried one by one
ExtractCodeConfiguredFirst(m, codeLen) ==
  LET body == normalizeDigits(m.subject \o <<"\n">> \o m.text \o <<"\n">>
                               \o stripHtml(m.html))
      at(i) == /\ i + tin.regexLen - 1 <= Len(body)
               /\ \A t \in i..(i + tin.regexLen - 1) : body[t] \in Digit
               /\ (i = 1 \/ body[i - 1] \notin Digit)
               /\ (i + tin.regexLen > Len(body) \/ body[i + tin.regexLen] \notin Digit)
      starts == {i \in 1..Len(body) : at(i)}
      code == IF findCode(m.text, codeLen) # NoCode
              THEN findCode(m.text, codeLen)
              ELSE IF findCode(stripHtml(m.html), codeLen) # NoCode
              THEN findCode(stripHtml(m.html), codeLen)
              ELSE findCode(m.subject, codeLen)
  IN  IF starts # {}
      THEN LET i == CHOOSE a \in starts : \A b \in starts : a <= b
           IN  SubSeq(body, i, i + tin.regexLen - 1)
      ELSE IF code = NoCode /\ m.raw # <<>> THEN findCode(m.raw, codeLen) ELSE code

\* text, then HTML, then subject, then the raw source
ExtractCode(m, codeLen) ==
  LET hayText == m.text
      hayHtml == stripHtml(m.html)
      code    == IF findCode(hayText, codeLen) # NoCode
                 THEN findCode(hayText, codeLen)
                 ELSE IF findCode(hayHtml, codeLen) # NoCode
                 THEN findCode(hayHtml, codeLen)
                 ELSE findCode(m.subject, codeLen)
  IN  IF code = NoCode /\ m.raw # <<>> THEN findCode(m.raw, codeLen) ELSE code

\* no look at the sender
SkipFromNever(c, m) == FALSE

\* skip.from
SkipFrom(c, m) == c.fromFilter # <<>> /\ ~RegExpTest(c.fromFilter, m.from)

\* the for loop over scan: [out, code, uid, seen], out one of "code", "none",
\* "throw"; seen lists the uids fetched
RECURSIVE ScanLoop(_, _, _, _, _)
ScanLoop(msgs, scan, c, cutoffMs, seen) ==
  IF scan = <<>> THEN [out |-> "none", code |-> NoCode, uid |-> 0, seen |-> seen]
  ELSE LET uid  == Head(scan)
           m    == msgs[uid]
           rest == Tail(scan)
           sn   == Append(seen, uid)
       IN  IF m.fetch = "throw"
           THEN [out |-> "throw", code |-> NoCode, uid |-> uid, seen |-> sn]
           ELSE IF m.fetch = "missing" THEN ScanLoop(msgs, rest, c, cutoffMs, sn)
           ELSE IF TooOld(m, cutoffMs) THEN ScanLoop(msgs, rest, c, cutoffMs, sn)
           ELSE IF ~m.parseOk THEN ScanLoop(msgs, rest, c, cutoffMs, sn)
           ELSE IF c.subjFilter # <<>> /\ ~RegExpTest(c.subjFilter, m.subject)
                THEN ScanLoop(msgs, rest, c, cutoffMs, sn)
           ELSE IF SkipFrom(c, m) THEN ScanLoop(msgs, rest, c, cutoffMs, sn)
           ELSE LET code == ExtractCode(m, c.codeLen)
                IN  IF code # NoCode
                    THEN [out |-> "code", code |-> code, uid |-> uid, seen |-> sn]
                    ELSE ScanLoop(msgs, rest, c, cutoffMs, sn)

\* scanMailbox after the lock was taken; searchFails: client.search throws
scanMailbox(msgs, c, cutoffMs, searchFails) ==
  IF searchFails THEN [out |-> "throw", code |-> NoCode, uid |-> 0, seen |-> <<>>]
  ELSE LET uids == SearchUids(msgs, c, cutoffMs)
       IN  IF uids = <<>>
           THEN [out |-> "none", code |-> NoCode, uid |-> 0, seen |-> <<>>]
           ELSE ScanLoop(msgs, NewestFirst(uids, c.maxScan), c, cutoffMs, <<>>)

\* ------------------------------------------------------------------ state

VARIABLES
  cfg,        \* the IMAP_* settings of the run
  boxes,      \* mailbox name -> [exists, msgs], msgs in ascending uid order
  clock,      \* wall clock, ms
  pc,         \* where main is
  challenge,  \* the portal shows the 2FA challenge screen
  mfa,        \* summary.mfa: "unset", "imap" (via imap) or "error"
  submitted,  \* the codes typed into the portal and sent, in order
  failedAt,   \* the step whose exception left main's outer try, or "none"
  exitCode,   \* the exit code of the process, -1 while it runs
  ipc,        \* where get2faCodeFromImap is
  calls,      \* invocations of get2faCodeFromImap
  cutoffMs,   \* cutoffMs of the running invocation
  idx,        \* index in mailboxes of the next mailbox to scan
  scanned,    \* the mailboxes whose lock was asked for, in order
  fetched,    \* the messages asked of fetchOne, in order: [box, uid]
  ret,        \* what get2faCodeFromImap gave: [kind, code, box, uid]
  connected,  \* the IMAP connection is open
  client,     \* the ImapFlow client: [locks held, logouts called]
  waited      \* what waitFor2faCode gave main: [how, code]

vars == <<cfg, boxes, clock, pc, challenge, mfa, submitted, failedAt, exitCode,
          ipc, calls, cutoffMs, idx, scanned, fetched, ret, connected, client,
          waited, tin, tout>>

textVars == <<tin, tout>>

mainVars == <<pc, challenge, mfa, submitted, failedAt, exitCode, waited>>

imapVars == <<ipc, calls, cutoffMs, idx, scanned, fetched, ret, connected, client>>

\* IMAP_LOOKBACK_MIN as the operator set it: an hour
LookbackChoices == {60}

\* numEnv('IMAP_MAX_SCAN', 60)
MaxScan == 60

\* numEnv('IMAP_CODE_LEN', 6)
DefaultCodeLen == 6

\* most messages the account holds in a run with another code length
\* than the default one
MsgCap(c) == IF c.codeLen = DefaultCodeLen THEN MaxMsgs ELSE 1

\* Math.max(4, Math.min(8, numEnv('IMAP_CODE_LEN', 6)))
ClampCodeLen(n) == IF n < 4 THEN 4 ELSE IF n > 8 THEN 8 ELSE n

Configs ==
  { [codeLen |-> ClampCodeLen(n), useGmailRaw |-> g, lookbackMin |-> lb,
     fudgeMin |-> f, maxScan |-> MaxScan, subjFilter |-> SubjMfa,
     fromFilter |-> <<>>, mailboxes |-> MailboxNames, creds |-> cr]
    : n \in 3..9, g \in BOOLEAN, lb \in LookbackChoices, f \in {0, 15},
      cr \in BOOLEAN }

NoRet == [kind |-> "unset", code |-> NoCode, box |-> "", uid |-> 0]

NoWait == [how |-> "unset", code |-> NoCode]

\* new ImapFlow(...)
NewClient == [locks |-> {}, logouts |-> 0]

\* no extractor is called on its own
NoInput ==
  [kind |-> "none", hay |-> <<>>,
   msg |-> Msg(0, <<>>, <<>>, <<>>, <<>>, TRUE, "ok"),
   codeLen |-> DefaultCodeLen, regexLen |-> DefaultCodeLen]

NoOut == [by |-> "unset", code |-> NoCode]

Init ==
  /\ cfg \in Configs
  /\ \E m1 \in SeqsUpTo(MsgKinds(cfg.codeLen), MsgCap(cfg)) :
       \E m2 \in SeqsUpTo(MsgKinds(cfg.codeLen), MsgCap(cfg) - Len(m1)) :
         \E e2 \in BOOLEAN :
           /\ (~e2 => m2 = <<>>)
           \* without credentials no mailbox is ever read
           /\ (~cfg.creds => m1 = <<>> /\ m2 = <<>> /\ e2)
           /\ boxes = [b \in {"INBOX", "AllMail"} |->
                         IF b = "INBOX" THEN [exists |-> TRUE, msgs |-> m1]
                         ELSE [exists |-> e2, msgs |-> m2]]
  /\ clock = StartTime
  /\ pc = "login"
  /\ challenge = FALSE
  /\ mfa = "unset"
  /\ submitted = <<>>
  /\ failedAt = "none"
  /\ exitCode = -1
  /\ ipc = "idle"
  /\ calls = 0
  /\ cutoffMs = 0
  /\ idx = 0
  /\ scanned = <<>>
  /\ fetched = <<>>
  /\ ret = NoRet
  /\ connected = FALSE
  /\ client = NewClient
  /\ waited = NoWait
  /\ tin = NoInput
  /\ tout = NoOut

\* ------------------------------------------------------------------ get2faCodeFromImap

\* the cutoff taken once, from the time the process started
CutoffOfStart(now, c) == StartTime - (c.lookbackMin + c.fudgeMin) * 60 * 1000

\* now.getTime() - (lookbackMin + fudgeMin) * 60 * 1000
CutoffOf(now, c) == now - (c.lookbackMin + c.fudgeMin) * 60 * 1000

\* no check of the credentials
CredsMissingNever(c) == FALSE

\* if (!user || !pass)
CredsMissing(c) == ~c.creds

\* entry: the credentials check, now and cutoffMs
G2faStart ==
  /\ ipc = "start"
  /\ IF CredsMissing(cfg)
     THEN /\ ret' = [kind |-> "throw", code |-> NoCode, box |-> "", uid |-> 0]
          /\ ipc' = "done"
          /\ UNCHANGED cutoffMs
     ELSE /\ cutoffMs' = CutoffOf(clock, cfg)
          /\ ipc' = "connect"
          /\ UNCHANGED ret
  /\ idx' = 1
  /\ UNCHANGED <<cfg, boxes, clock, calls, scanned, fetched, connected, client>>
  /\ UNCHANGED mainVars
  /\ UNCHANGED textVars

\* client.connect()
G2faConnect ==
  /\ ipc = "connect"
  /\ \E ok \in BOOLEAN :
       IF ok
       THEN /\ connected' = TRUE
            /\ ipc' = "scan"
            /\ UNCHANGED ret
       ELSE /\ ret' = [kind |-> "throw", code |-> NoCode, box |-> "", uid |-> 0]
            /\ ipc' = "logout"
            /\ UNCHANGED connected
  /\ UNCHANGED <<cfg, boxes, clock, calls, cutoffMs, idx, scanned, fetched, client>>
  /\ UNCHANGED mainVars
  /\ UNCHANGED textVars

\* the loop keeping on after a code, returning only from the last mailbox
AfterScanKeepGoing(r, i) ==
  IF r.out = "throw" THEN "throw"
  ELSE IF r.out = "code" /\ i = Len(MailboxNames) THEN "return"
  ELSE "next"

\* what the for loop over mailboxes does with the result r of scanning the
\* mailbox at index i: "return" it, go on to the "next" mailbox, or let the
\* exception "throw" out of the loop
AfterScan(r, i) ==
  IF r.out = "code" THEN "return"
  ELSE IF r.out = "throw" THEN "throw"
  ELSE "next"

\* lock.release() after the return alone, no finally
ReleasedOnReturn(mbox, r) == IF r.out = "throw" THEN {} ELSE {mbox}

\* the locks the finally block of scanMailbox releases when the scan of
\* mbox ends with r
Released(mbox, r) == {mbox}

\* one round of the for loop: getMailboxLock, the scan, lock.release
G2faScan ==
  /\ ipc = "scan"
  /\ idx <= Len(cfg.mailboxes)
  /\ LET mbox == cfg.mailboxes[idx]
     IN  /\ scanned' = Append(scanned, mbox)
         /\ \E searchFails \in BOOLEAN :
              LET r == IF boxes[mbox].exists
                       THEN scanMailbox(boxes[mbox].msgs, cfg, cutoffMs, searchFails)
                       ELSE [out |-> "throw", code |-> NoCode, uid |-> 0,
                             seen |-> <<>>]
                  next == AfterScan(r, idx)
              IN  /\ (~boxes[mbox].exists => ~searchFails)
                  /\ fetched' = fetched \o [k \in 1..Len(r.seen) |->
                                               [box |-> mbox, uid |-> r.seen[k]]]
                  /\ client' = [client EXCEPT !.locks =
                       (@ \cup (IF boxes[mbox].exists THEN {mbox} ELSE {}))
                         \ Released(mbox, r)]
                  /\ IF next = "return"
                     THEN /\ ret' = [kind |-> "code", code |-> r.code,
                                     box |-> mbox, uid |-> r.uid]
                          /\ ipc' = "logout"
                          /\ UNCHANGED idx
                     ELSE IF next = "throw"
                     THEN /\ ret' = [kind |-> "throw", code |-> NoCode,
                                     box |-> mbox, uid |-> r.uid]
                          /\ ipc' = "logout"
                          /\ UNCHANGED idx
                     ELSE /\ idx' = idx + 1
                          /\ UNCHANGED <<ret, ipc>>
  /\ UNCHANGED <<cfg, boxes, clock, calls, cutoffMs, connected>>
  /\ UNCHANGED mainVars
  /\ UNCHANGED textVars

\* the loop is over: return null
G2faNotFound ==
  /\ ipc = "scan"
  /\ idx > Len(cfg.mailboxes)
  /\ ret' = [kind |-> "none", code |-> NoCode, box |-> "", uid |-> 0]
  /\ ipc' = "logout"
  /\ UNCHANGED <<cfg, boxes, clock, calls, cutoffMs, idx, scanned, fetched, connected,
                 client>>
  /\ UNCHANGED mainVars
  /\ UNCHANGED textVars

\* finally: client.logout()
G2faLogout ==
  /\ ipc = "logout"
  /\ connected' = FALSE
  /\ client' = [client EXCEPT !.logouts = @ + 1]
  /\ ipc' = "done"
  /\ UNCHANGED <<cfg, boxes, clock, calls, cutoffMs, idx, scanned, fetched, ret>>
  /\ UNCHANGED mainVars
  /\ UNCHANGED textVars

\* ------------------------------------------------------------------ main

\* loginWithRetries, then the wait for the 2FA prompt; when the login throws,
\* the finally block and main().catch: exit code 1
Login ==
  /\ pc = "login"
  /\ \E ok \in BOOLEAN, ch \in BOOLEAN :
       IF ok
       THEN /\ pc' = "mfa"
            /\ challenge' = ch
            /\ clock' = clock + MfaReadyWaitMs
            /\ UNCHANGED <<failedAt, exitCode>>
       ELSE /\ ~ch
            /\ pc' = "exit"
            /\ failedAt' = "login"
            /\ exitCode' = 1
            /\ UNCHANGED <<challenge, clock>>
  /\ UNCHANGED <<cfg, boxes, mfa, submitted, waited>>
  /\ UNCHANGED imapVars
  /\ UNCHANGED textVars

\* if (await twofaScreenPresent(page)) code = await waitFor2faCode()
TwofaCheck ==
  /\ pc = "mfa"
  /\ IF challenge
     THEN /\ pc' = "wait"
          /\ ipc' = "start"
          /\ calls' = calls + 1
     ELSE /\ pc' = "nav"
          /\ UNCHANGED <<ipc, calls>>
  /\ UNCHANGED <<cfg, boxes, clock, challenge, mfa, submitted, failedAt, exitCode,
                 waited, cutoffMs, idx, scanned, fetched, ret, connected, client>>
  /\ UNCHANGED textVars

\* waitFor2faCode as a loop that searches again while there is no code
waitFor2faCodePolling(r) ==
  IF r.kind = "throw" THEN "throw"
  ELSE IF r.kind = "none" THEN "again"
  ELSE "return"

\* waitFor2faCode failing when the search gave no code
waitFor2faCodeTimeout(r) ==
  IF r.kind \in {"throw", "none"} THEN "throw" ELSE "return"

\* waitFor2faCode swallowing the exception of the search
waitFor2faCodeSwallow(r) == "return"

\* waitFor2faCode once get2faCodeFromImap has given r: "return" r's code (a
\* string or null) to main, let r's exception "throw" on, or call "again"
waitFor2faCode(r) ==
  IF r.kind = "throw" THEN "throw" ELSE "return"

\* the 2FA step without its catch: no code ends the job
NoCodeNextFail == "exit"

\* where main goes when the 2FA step got no code: the inner catch records
\* the error and main goes on
NoCodeNext == "nav"

\* the code handed on whatever it is
CodeUsableUntested(how, code) == how = "return"

\* the negation of `!code || typeof code !== 'string'` for what
\* waitFor2faCode gave: a string that is not empty
CodeUsable(how, code) == how = "return" /\ code # NoCode

\* waitFor2faCode ends; main tests the code
WaitReturn ==
  /\ pc = "wait"
  /\ ipc = "done"
  /\ LET how == waitFor2faCode(ret)
     IN  IF how = "again"
         THEN /\ ipc' = "start"
              /\ calls' = calls + 1
              /\ UNCHANGED <<pc, mfa, failedAt, waited, exitCode>>
         ELSE /\ ipc' = "idle"
              /\ waited' = [how |-> how, code |-> ret.code]
              /\ UNCHANGED calls
              /\ IF CodeUsable(how, ret.code)
                 THEN /\ pc' = "submit"
                      /\ UNCHANGED <<mfa, failedAt, exitCode>>
                 ELSE /\ mfa' = "error"
                      /\ pc' = NoCodeNext
                      /\ failedAt' = IF NoCodeNext = "exit" THEN "mfa"
                                     ELSE failedAt
                      /\ exitCode' = IF NoCodeNext = "exit" THEN 1 ELSE exitCode
  /\ UNCHANGED <<cfg, boxes, clock, challenge, submitted, cutoffMs, idx,
                 scanned, fetched, ret, connected, client>>
  /\ UNCHANGED textVars

\* a submission cycle: back to the 2FA check while the challenge shows
AfterSubmitRetry(cleared) == IF cleared THEN "nav" ELSE "mfa"

\* summary.mfa set from a check of the challenge screen
MfaAfterSubmitChecked(cleared) == IF cleared THEN "imap" ELSE "error"

\* the held code typed in again while the challenge shows
AfterSubmitResubmit(cleared) == IF cleared THEN "nav" ELSE "submit"

\* where main goes after submitTwofaCode returned; cleared: the portal took
\* the code and the challenge screen is gone
AfterSubmit(cleared) == "nav"

\* summary.mfa after submitTwofaCode returned
MfaAfterSubmit(cleared) == "imap"

\* submitTwofaCode(page, code) and the pause after it.  out: the portal
\* "cleared" the challenge, "rejected" the code, or the page has "noinput"
\* to type the code into (submitTwofaCode throws)
SubmitTwofa ==
  /\ pc = "submit"
  /\ \E out \in {"cleared", "rejected", "noinput"} :
       IF out = "noinput"
       THEN /\ mfa' = "error"
            /\ pc' = "nav"
            /\ challenge' = FALSE
            /\ UNCHANGED submitted
       ELSE /\ submitted' = Append(submitted, waited.code)
            /\ challenge' = (out = "rejected")
            /\ mfa' = MfaAfterSubmit(out = "cleared")
            /\ pc' = AfterSubmit(out = "cleared")
  /\ UNCHANGED <<cfg, boxes, clock, failedAt, exitCode, waited>>
  /\ UNCHANGED imapVars
  /\ UNCHANGED textVars

\* gotoAdvancedReporting, gotoNetAchDetails; when one throws, the finally
\* block and main().catch: exit code 1
Navigate ==
  /\ pc = "nav"
  /\ \E ok \in BOOLEAN :
       IF ok THEN pc' = "report" /\ UNCHANGED <<failedAt, exitCode>>
       ELSE pc' = "exit" /\ failedAt' = "nav" /\ exitCode' = 1
  /\ UNCHANGED <<cfg, boxes, clock, challenge, mfa, submitted, waited>>
  /\ UNCHANGED imapVars
  /\ UNCHANGED textVars

\* MIDs, dates, load, export, email, then the finally block: summary
\* written, context and browser closed; main().catch exits 1
Report ==
  /\ pc = "report"
  /\ \E ok \in BOOLEAN :
       /\ failedAt' = IF ok THEN failedAt ELSE "report"
       /\ exitCode' = IF ok THEN 0 ELSE 1
  /\ pc' = "exit"
  /\ UNCHANGED <<cfg, boxes, clock, challenge, mfa, submitted, waited>>
  /\ UNCHANGED imapVars
  /\ UNCHANGED textVars

Next ==
  \/ Login
  \/ TwofaCheck
  \/ G2faStart
  \/ G2faConnect
  \/ G2faScan
  \/ G2faNotFound
  \/ G2faLogout
  \/ WaitReturn
  \/ SubmitTwofa
  \/ Navigate
  \/ Report

Spec == Init /\ [][Next]_vars

\* ------------------------------------------------------------------ the extractors on their own

DigitChars == <<"0", "1", "2", "3", "4", "5", "6", "7", "8", "9">>

\* 1234567890...
Ascending(k) == [i \in 1..k |-> DigitChars[(i % 10) + 1]]

\* 9876543210...
Descending(k) == [i \in 1..k |-> DigitChars[((10 - (i % 10)) % 10) + 1]]

\* 5678901234...
Middle(k) == [i \in 1..k |-> DigitChars[((i + 4) % 10) + 1]]

\* 2468024680...
Evens(k) == [i \in 1..k |-> DigitChars[((2 * i) % 10) + 1]]

\* the code lengths IMAP_CODE_LEN is clamped to
CodeLens == {ClampCodeLen(n) : n \in 3..9}

\* what stands between, before and after the two runs of a haystack
Between ==
  { <<>>, <<" ">>, <<"-">>, <<" ", "-", " ">>, <<"x">>, <<"ZW">>, <<"=", "\n">> }

Before == { <<>>, <<"a">>, <<"-">> }

After == { <<>>, <<"a">> }

\* the haystacks of the separator scenario
NamedHays ==
  { <<"1", "2", "3", " ", "4", "5", "6">>,
    <<"1", "2", "3", "-", "4", "5", "6">>,
    <<"1", "2", "3", "-", "4", "5", "6", "7">> }

\* haystacks: two runs of digits and what surrounds them
Hays ==
  { pre \o Ascending(k) \o sep \o Descending(j) \o suf :
      pre \in Before, k \in 0..MaxRun, sep \in Between, j \in 0..MaxRun,
      suf \in After } \cup NamedHays

Entity(name) == <<"&">> \o name \o <<";">>

\* the parsed parts and the source of a message the portal sends with codes
\* of n digits: the subject, text/plain, text/html, the raw source
Subjects(n) == { SubjMfa, SubjMfa \o <<" ">> \o Middle(n) }

Texts(n) ==
  { <<>>, <<"h", "i">>,
    <<"c", " ">> \o Ascending(n),
    <<"c", " ">> \o Ascending(4),
    <<"c", " ">> \o Ascending(2) \o <<"-">> \o SubSeq(Ascending(n), 3, n) }

Htmls(n) ==
  { <<>>,
    <<"<", "b", ">">> \o Descending(n) \o <<"<", "/", "b", ">">>,
    Entity(<<"n", "b", "s", "p">>) \o Descending(n) \o Entity(<<"N", "B", "S", "P">>),
    Entity(<<"a", "m", "p">>) \o Descending(n) \o Entity(<<"a", "m", "p">>),
    Entity(<<"l", "t">>) \o Descending(n) \o Entity(<<"g", "t">>) }

Raws(n) ==
  { <<>>,
    <<"x", " ">> \o Evens(n),
    \* quoted-printable: a soft line break inside the code
    <<"x", " ">> \o SubSeq(Evens(n), 1, 2) \o <<"=", "\n">> \o SubSeq(Evens(n), 3, n) }

TextMsgs(n) ==
  { Msg(1, subj, text, html, raw, TRUE, "ok") :
      subj \in Subjects(n), text \in Texts(n), html \in Htmls(n), raw \in Raws(n) }

\* what an extractor is called on: a haystack, or a message with the
\* IMAP_CODE_LEN and the digits IMAP_CODE_REGEX asks for, (?<!\d)\d{k}(?!\d)
TextInputs ==
  { [kind |-> "hay", hay |-> h, msg |-> NoInput.msg, codeLen |-> n, regexLen |-> n] :
      h \in Hays, n \in CodeLens }
  \cup UNION { { [kind |-> "msg", hay |-> <<>>, msg |-> m, codeLen |-> n,
                  regexLen |-> r] : m \in TextMsgs(n), r \in {n, 4} } : n \in CodeLens }

\* the settings scanMailbox runs under when called on one message
TextConfig(n) ==
  [codeLen |-> n, useGmailRaw |-> FALSE,
   lookbackMin |-> CHOOSE lb \in LookbackChoices : TRUE, fudgeMin |-> 0,
   maxScan |-> MaxScan, subjFilter |-> SubjMfa, fromFilter |-> <<>>,
   mailboxes |-> MailboxNames, creds |-> TRUE]

\* body.match(codeRegex) for codeRegex (?<!\d)\d{k}(?!\d): m[0] of the
\* leftmost match, null when there is none
MatchCodeRegex(body, k) ==
  LET at(i) == /\ i + k - 1 <= Len(body)
               /\ \A t \in i..(i + k - 1) : body[t] \in Digit
               /\ (i = 1 \/ body[i - 1] \notin Digit)
               /\ (i + k > Len(body) \/ body[i + k] \notin Digit)
      starts == {i \in 1..Len(body) : at(i)}
  IN  IF starts = {} THEN NoCode
      ELSE LET i == CHOOSE a \in starts : \A b \in starts : a <= b
           IN  SubSeq(body, i, i + k - 1)

\* `${parsed.subject || ''}\n${parsed.text || ''}\n${parsed.html || ''}`
SmokeBody(m) == m.subject \o <<"\n">> \o m.text \o <<"\n">> \o m.html

TextInit ==
  /\ tin \in TextInputs
  /\ tout = NoOut
  /\ cfg = TextConfig(tin.codeLen)
  /\ boxes = [b \in {"INBOX", "AllMail"} |-> [exists |-> TRUE, msgs |-> <<>>]]
  /\ clock = JobTime
  /\ pc = "exit"
  /\ challenge = FALSE
  /\ mfa = "unset"
  /\ submitted = <<>>
  /\ failedAt = "none"
  /\ exitCode = -1
  /\ ipc = "idle"
  /\ calls = 0
  /\ cutoffMs = 0
  /\ idx = 0
  /\ scanned = <<>>
  /\ fetched = <<>>
  /\ ret = NoRet
  /\ connected = FALSE
  /\ client = NewClient
  /\ waited = NoWait

\* findCode(haystack, codeLen)
FindCodeCall ==
  /\ tin.kind = "hay"
  /\ tout.by = "unset"
  /\ tout' = [by |-> "findCode", code |-> findCode(tin.hay, tin.codeLen)]
  /\ UNCHANGED <<tin, cfg, boxes, clock>>
  /\ UNCHANGED mainVars
  /\ UNCHANGED imapVars

\* scanMailbox on a mailbox that holds the one message
ScanCall ==
  /\ tin.kind = "msg"
  /\ tout.by = "unset"
  /\ tout' = [by |-> "scanMailbox",
              code |-> scanMailbox(<<tin.msg>>, cfg, CutoffOf(clock, cfg), FALSE).code]
  /\ UNCHANGED <<tin, cfg, boxes, clock>>
  /\ UNCHANGED mainVars
  /\ UNCHANGED imapVars

\* the body of the for await loop of fetchNewestMfaCode on the one message
SmokeExtract ==
  /\ tin.kind = "msg"
  /\ tout.by = "unset"
  /\ tout' = [by |-> "fetchNewestMfaCode",
              code |-> MatchCodeRegex(SmokeBody(tin.msg), tin.regexLen)]
  /\ UNCHANGED <<tin, cfg, boxes, clock>>
  /\ UNCHANGED mainVars
  /\ UNCHANGED imapVars

\* findCode on the input of the call before, as in the src of the inspect
\* log line
FindCodeAgain ==
  /\ tin.kind = "hay"
  /\ tout.by = "findCode"
  /\ tout' = [by |-> "findCode again",
              code |-> findCodeAfter(tin.hay, tin.codeLen,
                         LastIndexAfter(normalizeDigits(tin.hay), 1, tin.codeLen)),
              first |-> tout.code]
  /\ UNCHANGED <<tin, cfg, boxes, clock>>
  /\ UNCHANGED mainVars
  /\ UNCHANGED imapVars

TextNext ==
  \/ FindCodeCall
  \/ FindCodeAgain
  \/ ScanCall
  \/ SmokeExtract

SpecText == TextInit /\ [][TextNext]_vars

\* ------------------------------------------------------------------ the scripts and helpers on their own

\* most messages of the one mailbox a scanner is run on by itself
MaxBox == 2

OtherSender == <<"n", "o">>

\* a message as the searches of the scripts see it
SMsg(age, subject, from, seen, text) ==
  [idate |-> JobTime - age * MinuteMs, subject |-> subject, from |-> from,
   seen |-> seen, text |-> text, html |-> <<>>]

\* the messages of a mailbox the scripts search: a few minutes old with the
\* code in the text, read or unread, of the portal or not; one with the
\* code in its subject; one of two days before
SearchKinds ==
  { SMsg(5, subj, from, seen, <<"c", " ">> \o CodeA(DefaultCodeLen)) :
      subj \in {SubjMfa, SubjOther}, from \in {Sender, OtherSender},
      seen \in BOOLEAN }
  \cup { SMsg(5, SubjMfa \o <<" ">> \o CodeB(DefaultCodeLen), Sender, TRUE, <<"h", "i">>),
         SMsg(3000, SubjMfa, Sender, FALSE, <<"c", " ">> \o CodeA(DefaultCodeLen)) }

\* s holds filter, whatever the case of the letters
Contains(s, filter) == RegExpTest(filter, s)

\* one message against the terms of one client.search query; SINCE compares
\* calendar days
Matches(m, q) ==
  /\ DateOf(m.idate) >= DateOf(q.since)
  /\ (q.from = <<>> \/ Contains(m.from, q.from))
  /\ (q.subject = <<>> \/ Contains(m.subject, q.subject))
  /\ (q.unseen => ~m.seen)

\* client.search(q): the identifiers of the matching messages, ascending
RECURSIVE Search(_, _, _)
Search(msgs, q, uid) ==
  IF uid > Len(msgs) THEN <<>>
  ELSE (IF Matches(msgs[uid], q) THEN <<uid>> ELSE <<>>) \o Search(msgs, q, uid + 1)

\* uids.sort((a, b) => b - a)
RECURSIVE SortDescending(_)
SortDescending(q) ==
  IF q = <<>> THEN <<>>
  ELSE LET k == CHOOSE i \in 1..Len(q) : \A j \in 1..Len(q) : q[i] >= q[j]
       IN  <<q[k]>> \o SortDescending([i \in 1..(Len(q) - 1) |->
                                        IF i < k THEN q[i] ELSE q[i + 1]])

\* q.slice(0, n)
FirstN(q, n) == SubSeq(q, 1, IF Len(q) < n THEN Len(q) ELSE n)

\* num(env('IMAP_LOOKBACK_MINUTES'), 60) of the debug script
Part000LookbackMinutes == 60

\* uids.slice(0, 5) of the debug script
Part000Top == 5

\* the ladder in the order of the specification: everything, then without
\* unseen, then without the sender, then since alone
QueriesUnseenFirst(c) ==
  LET since == JobTime - Part000LookbackMinutes * MinuteMs
  IN  << [since |-> since, from |-> c.fromFilter, subject |-> c.subjectFilter,
          unseen |-> c.onlyUnseen],
         [since |-> since, from |-> c.fromFilter, subject |-> c.subjectFilter,
          unseen |-> FALSE],
         [since |-> since, from |-> <<>>, subject |-> c.subjectFilter,
          unseen |-> FALSE],
         [since |-> since, from |-> <<>>, subject |-> <<>>, unseen |-> FALSE] >>

\* q1..q4 of openAndGetCode
Part000Queries(c) ==
  LET since == JobTime - Part000LookbackMinutes * MinuteMs
  IN  << [since |-> since, from |-> c.fromFilter, subject |-> c.subjectFilter,
          unseen |-> c.onlyUnseen],
         [since |-> since, from |-> <<>>, subject |-> c.subjectFilter,
          unseen |-> TRUE],
         [since |-> since, from |-> <<>>, subject |-> c.subjectFilter,
          unseen |-> FALSE],
         [since |-> since, from |-> <<>>, subject |-> <<>>, unseen |-> FALSE] >>

\* for (const q of queries): the first query from the k-th on that neither
\* throws nor answers nothing; failing is the number of the query that throws
RECURSIVE Ladder(_, _, _, _)
Ladder(msgs, queries, failing, k) ==
  IF k > Len(queries) THEN [step |-> 0, uids |-> <<>>]
  ELSE IF k # failing /\ Search(msgs, queries[k], 1) # <<>>
       THEN [step |-> k, uids |-> Search(msgs, queries[k], 1)]
       ELSE Ladder(msgs, queries, failing, k + 1)

\* the first of top whose subject (subjectOnly) or whose subject, text and
\* HTML together hold a run of exactly k digits
RECURSIVE FirstMatch(_, _, _, _)
FirstMatch(msgs, top, subjectOnly, k) ==
  IF top = <<>> THEN [uid |-> 0, code |-> NoCode]
  ELSE LET m    == msgs[Head(top)]
           body == IF subjectOnly THEN m.subject ELSE SmokeBody(m)
       IN  IF MatchCodeRegex(body, k) # NoCode
           THEN [uid |-> Head(top), code |-> MatchCodeRegex(body, k)]
           ELSE FirstMatch(msgs, Tail(top), subjectOnly, k)

\* openAndGetCode on an open mailbox: the ladder, the five newest, their
\* subjects, then their bodies
openAndGetCode(msgs, c) ==
  LET l   == Ladder(msgs, Part000Queries(c), c.failing, 1)
      top == FirstN(SortDescending(l.uids), Part000Top)
      s   == FirstMatch(msgs, top, TRUE, DefaultCodeLen)
      b   == FirstMatch(msgs, top, FALSE, DefaultCodeLen)
  IN  IF l.uids = <<>>
      THEN [by |-> "openAndGetCode", out |-> "none", code |-> NoCode, uid |-> 0,
            where |-> "", step |-> 0, uids |-> <<>>]
      ELSE IF s.uid # 0
      THEN [by |-> "openAndGetCode", out |-> "code", code |-> s.code, uid |-> s.uid,
            where |-> "subject", step |-> l.step, uids |-> l.uids]
      ELSE IF b.uid # 0
      THEN [by |-> "openAndGetCode", out |-> "code", code |-> b.code, uid |-> b.uid,
            where |-> "body", step |-> l.step, uids |-> l.uids]
      ELSE [by |-> "openAndGetCode", out |-> "none", code |-> NoCode, uid |-> 0,
            where |-> "", step |-> l.step, uids |-> l.uids]

\* num('IMAP_LOOKBACK_MINUTES', 20) of the smoke test
SmokeLookbackMinutes == 20

\* uids.slice(0, 20) of the smoke test
SmokeTop == 20

\* the query of the smoke test with no seen term at all
SmokeQueryAnySeen(c) ==
  [since |-> JobTime - SmokeLookbackMinutes * MinuteMs, from |-> c.fromFilter,
   subject |-> c.subjectFilter, unseen |-> FALSE]

\* const query of fetchNewestMfaCode
SmokeQuery(c) ==
  [since |-> JobTime - SmokeLookbackMinutes * MinuteMs, from |-> c.fromFilter,
   subject |-> c.subjectFilter, unseen |-> c.onlyUnseen]

\* one attempt of fetchNewestMfaCode after the lock was taken; the messages
\* come back in the order asked for or in the order of the mailbox
SmokeAttempt(msgs, c, asAsked) ==
  LET q     == SmokeQuery(c)
      first == Search(msgs, q, 1)
      relax == c.onlyUnseen /\ first = <<>>
      uids  == IF relax THEN Search(msgs, [q EXCEPT !.unseen = FALSE], 1) ELSE first
      check == FirstN(SortDescending(uids), SmokeTop)
      r     == FirstMatch(msgs, IF asAsked THEN check ELSE Reverse(check),
                          FALSE, DefaultCodeLen)
  IN  IF c.failing = 1 \/ (c.failing = 2 /\ relax)
      THEN [by |-> "fetchNewestMfaCode", out |-> "throw", code |-> NoCode, uid |-> 0,
            relaxed |-> relax]
      ELSE IF r.uid # 0
      THEN [by |-> "fetchNewestMfaCode", out |-> "code", code |-> r.code,
            uid |-> r.uid, relaxed |-> relax]
      ELSE [by |-> "fetchNewestMfaCode", out |-> "throw", code |-> NoCode, uid |-> 0,
            relaxed |-> relax]

\* `${code.slice(0, 2)}****`
codeHint(code) == FirstN(code, 2) \o <<"*", "*", "*", "*">>

\* res.code.replace(/^(\d{4})(\d{2})$/, '****$2')
Part000Masked(code) ==
  IF Len(code) = 6 THEN <<"*", "*", "*", "*">> \o SubSeq(code, 5, 6) ELSE code

\* code.replace(/^(.*)(..)$/, '******$2')
SmokeMasked(code) ==
  IF Len(code) >= 2
  THEN <<"*", "*", "*", "*", "*", "*">> \o SubSeq(code, Len(code) - 1, Len(code))
  ELSE code

\* the settings scanMailbox runs under on a mailbox of its own
BoxConfig(i) ==
  [TextConfig(DefaultCodeLen) EXCEPT !.maxScan = i.maxScan,
                                     !.useGmailRaw = i.useGmailRaw]

\* messages a few minutes old, of the portal or not, under the subject of
\* the portal or not, each with a code of its own in the text
FilterKinds ==
  { [Msg(5, SubjMfa, <<"c", " ">> \o Ascending(DefaultCodeLen), <<>>, <<>>, TRUE, "ok")
       EXCEPT !.from = Sender],
    [Msg(5, SubjMfa, <<"c", " ">> \o Descending(DefaultCodeLen), <<>>, <<>>, TRUE, "ok")
       EXCEPT !.from = OtherSender],
    [Msg(5, SubjOther, <<"c", " ">> \o Middle(DefaultCodeLen), <<>>, <<>>, TRUE, "ok")
       EXCEPT !.from = Sender],
    [Msg(5, SubjOther, <<"c", " ">> \o Evens(DefaultCodeLen), <<>>, <<>>, TRUE, "ok")
       EXCEPT !.from = OtherSender] }

\* the settings scanMailbox runs under with IMAP_SUBJECT_FILTER and
\* IMAP_FROM_FILTER as given
FilterConfig(i) ==
  [TextConfig(DefaultCodeLen) EXCEPT !.subjFilter = i.subjFilter,
                                     !.fromFilter = i.fromFilter,
                                     !.useGmailRaw = i.useGmailRaw]

\* what a script or a helper is called on
AuxInputs ==
  { [kind |-> "search", msgs |-> ms, fromFilter |-> f, subjectFilter |-> SubjMfa,
     onlyUnseen |-> u, failing |-> k] :
      ms \in SeqsUpTo(SearchKinds, MaxBox), f \in {<<>>, Sender}, u \in BOOLEAN,
      k \in 0..4 }
  \cup { [kind |-> "box", msgs |-> ms, maxScan |-> n, useGmailRaw |-> g] :
           ms \in SeqsUpTo(MsgKinds(DefaultCodeLen), MaxBox),
           n \in {1, 2, MaxScan}, g \in BOOLEAN }
  \cup { [kind |-> "filter", msgs |-> ms, subjFilter |-> sf, fromFilter |-> ff,
          useGmailRaw |-> g] :
           ms \in SeqsUpTo(FilterKinds, MaxBox), sf \in {<<>>, SubjMfa},
           ff \in {<<>>, Sender}, g \in BOOLEAN }
  \cup { [kind |-> "code", code |-> c, debug |-> d] :
           c \in {Ascending(n) : n \in CodeLens} \cup {Descending(n) : n \in CodeLens},
           d \in BOOLEAN }
  \cup { [kind |-> "email", enabled |-> en, to |-> to, fileArg |-> fa,
          exists |-> ex, sendOk |-> so] :
           en \in {"unset", "true", "false"}, to \in BOOLEAN,
           fa \in {"string", "object", "other"}, ex \in BOOLEAN, so \in BOOLEAN }
  \cup { [kind |-> "smoke"] }

AuxInit ==
  /\ tin \in AuxInputs
  /\ tout = NoOut
  /\ cfg = TextConfig(DefaultCodeLen)
  /\ boxes = [b \in {"INBOX", "AllMail"} |-> [exists |-> TRUE, msgs |-> <<>>]]
  /\ clock = JobTime
  /\ pc = "exit"
  /\ challenge = FALSE
  /\ mfa = "unset"
  /\ submitted = <<>>
  /\ failedAt = "none"
  /\ exitCode = -1
  /\ ipc = "idle"
  /\ calls = 0
  /\ cutoffMs = 0
  /\ idx = 0
  /\ scanned = <<>>
  /\ fetched = <<>>
  /\ ret = NoRet
  /\ connected = FALSE
  /\ client = NewClient
  /\ waited = NoWait

\* openAndGetCode(mailbox) of the debug script
Part000OpenAndGetCode ==
  /\ tin.kind = "search"
  /\ tout.by = "unset"
  /\ tout' = openAndGetCode(tin.msgs, tin)
  /\ UNCHANGED <<tin, cfg, boxes, clock>>
  /\ UNCHANGED mainVars
  /\ UNCHANGED imapVars

\* fetchNewestMfaCode of the smoke test on a mailbox that does not change
\* while it polls: every attempt ends as the first
SmokeFetch ==
  /\ tin.kind = "search"
  /\ tout.by = "unset"
  /\ \E asAsked \in BOOLEAN : tout' = SmokeAttempt(tin.msgs, tin, asAsked)
  /\ UNCHANGED <<tin, cfg, boxes, clock>>
  /\ UNCHANGED mainVars
  /\ UNCHANGED imapVars

\* scanMailbox of the runner on one mailbox
ScanBox ==
  /\ tin.kind = "box"
  /\ tout.by = "unset"
  /\ tout' = [by |-> "scanMailbox"]
               @@ scanMailbox(tin.msgs, BoxConfig(tin),
                              CutoffOf(clock, BoxConfig(tin)), FALSE)
  /\ UNCHANGED <<tin, cfg, boxes, clock>>
  /\ UNCHANGED mainVars
  /\ UNCHANGED imapVars

\* scanMailbox of the runner on one mailbox, under the filters given
ScanFiltered ==
  /\ tin.kind = "filter"
  /\ tout.by = "unset"
  /\ tout' = [by |-> "scanMailbox filtered"]
               @@ scanMailbox(tin.msgs, FilterConfig(tin),
                              CutoffOf(clock, FilterConfig(tin)), FALSE)
  /\ UNCHANGED <<tin, cfg, boxes, clock>>
  /\ UNCHANGED mainVars
  /\ UNCHANGED imapVars

\* log('inspect', {...}) of scanMailbox for a message that gave the code
InspectLog ==
  /\ tin.kind = "code"
  /\ tout.by = "unset"
  /\ tout' = [by |-> "inspect",
              lines |-> IF tin.debug THEN <<codeHint(tin.code)>> ELSE <<>>]
  /\ UNCHANGED <<tin, cfg, boxes, clock>>
  /\ UNCHANGED mainVars
  /\ UNCHANGED imapVars

\* the result the debug script prints: code and code_masked
Part000Print ==
  /\ tin.kind = "code"
  /\ tout.by = "unset"
  /\ tout' = [by |-> "part_000", lines |-> <<tin.code, Part000Masked(tin.code)>>]
  /\ UNCHANGED <<tin, cfg, boxes, clock>>
  /\ UNCHANGED mainVars
  /\ UNCHANGED imapVars

\* the step the smoke test records for the code: code_masked
SmokeStepCode ==
  /\ tin.kind = "code"
  /\ tout.by = "unset"
  /\ tout' = [by |-> "smoke step", lines |-> <<SmokeMasked(tin.code)>>]
  /\ UNCHANGED <<tin, cfg, boxes, clock>>
  /\ UNCHANGED mainVars
  /\ UNCHANGED imapVars

\* emailReport(fileArg, overrides): what it did with nodemailer; every
\* throw inside is caught and logged
emailReport ==
  /\ tin.kind = "email"
  /\ tout.by = "unset"
  /\ LET go == tin.to /\ tin.fileArg # "other" /\ tin.exists
     IN  tout' = [by |-> "emailReport",
                  transports |-> IF go THEN 1 ELSE 0,
                  sent |-> IF go /\ tin.sendOk THEN 1 ELSE 0,
                  skipped |-> ~tin.to,
                  failed |-> tin.to /\ ~(go /\ tin.sendOk),
                  threw |-> FALSE]
  /\ UNCHANGED <<tin, cfg, boxes, clock>>
  /\ UNCHANGED mainVars
  /\ UNCHANGED imapVars

\* const summary = { steps: [], ok: true } of the smoke test; steps holds
\* the ok of each step recorded
NewSummary ==
  [by |-> "smoke", at |-> "validate", steps |-> <<>>, ok |-> TRUE,
   written |-> FALSE, exit |-> -1]

\* validateEnv and what main does with its problems
SmokeValidate ==
  /\ tin.kind = "smoke"
  /\ tout.by = "unset"
  /\ \E problems \in BOOLEAN :
       tout' = IF problems
               THEN [NewSummary EXCEPT !.ok = FALSE, !.steps = <<FALSE>>,
                                       !.at = "exited", !.exit = 1]
               ELSE [NewSummary EXCEPT !.steps = <<TRUE>>, !.at = "preflight"]
  /\ UNCHANGED <<tin, cfg, boxes, clock>>
  /\ UNCHANGED mainVars
  /\ UNCHANGED imapVars

\* preflightImap in its try/catch
SmokePreflight ==
  /\ tout.by = "smoke"
  /\ tout.at = "preflight"
  /\ \E passed \in BOOLEAN :
       tout' = [tout EXCEPT !.steps = Append(@, passed), !.at = "browser"]
  /\ UNCHANGED <<tin, cfg, boxes, clock>>
  /\ UNCHANGED mainVars
  /\ UNCHANGED imapVars

\* chromium.launch and the try/catch/finally around the login, the 2FA
\* check and fetchNewestMfaCode
SmokeBrowser ==
  /\ tout.by = "smoke"
  /\ tout.at = "browser"
  /\ \E launched \in BOOLEAN, login \in BOOLEAN, has2fa \in BOOLEAN,
        fetch \in {"code", "throw"} :
       tout' =
         IF ~launched
         THEN [tout EXCEPT !.at = "exited", !.exit = 1]
         ELSE IF ~login
         THEN [tout EXCEPT !.ok = FALSE, !.steps = Append(@, FALSE), !.at = "write"]
         ELSE IF ~has2fa
         THEN [tout EXCEPT !.ok = TRUE, !.steps = @ \o <<TRUE, TRUE>>, !.at = "write"]
         ELSE IF fetch = "code"
         THEN [tout EXCEPT !.ok = TRUE, !.steps = @ \o <<TRUE, TRUE, TRUE>>,
                           !.at = "write"]
         ELSE [tout EXCEPT !.ok = FALSE, !.steps = @ \o <<TRUE, TRUE, FALSE>>,
                           !.at = "write"]
  /\ UNCHANGED <<tin, cfg, boxes, clock>>
  /\ UNCHANGED mainVars
  /\ UNCHANGED imapVars

\* process.exit(summary.ok ? 0 : 1)
ExitOf(summary) == IF summary.ok THEN 0 ELSE 1

\* fs.writeFileSync in its try/catch, console.log, process.exit
SmokeFinish ==
  /\ tout.by = "smoke"
  /\ tout.at = "write"
  /\ \E wrote \in BOOLEAN :
       tout' = [tout EXCEPT !.written = wrote, !.at = "exited", !.exit = ExitOf(tout)]
  /\ UNCHANGED <<tin, cfg, boxes, clock>>
  /\ UNCHANGED mainVars
  /\ UNCHANGED imapVars

AuxNext ==
  \/ Part000OpenAndGetCode
  \/ SmokeFetch
  \/ ScanBox
  \/ ScanFiltered
  \/ InspectLog
  \/ Part000Print
  \/ SmokeStepCode
  \/ emailReport
  \/ SmokeValidate
  \/ SmokePreflight
  \/ SmokeBrowser
  \/ SmokeFinish

SpecAux == AuxInit /\ [][AuxNext]_vars

\* ------------------------------------------------------------------ claims

\* the message the returned code was taken from
RetMsg == boxes[ret.box].msgs[ret.uid]

\* waitFor2faCode has ended
WaitOver == waited.how # "unset"

\* main is past its 2FA step
PastTwofa == pc \in {"nav", "report", "exit"}

\* scanMailbox on the mailbox at index i of the configured list
ScanOf(i) ==
  IF boxes[cfg.mailboxes[i]].exists
  THEN scanMailbox(boxes[cfg.mailboxes[i]].msgs, cfg, cutoffMs, FALSE)
  ELSE [out |-> "throw", code |-> NoCode, uid |-> 0, seen |-> <<>>]

\* C1: a code returned by get2faCodeFromImap, and the code waitFor2faCode
\* hands to main, is exactly codeLen characters long, codeLen in 4..8, and
\* every character is a decimal digit.
C1_CodeIsCodeLenDigits ==
  /\ cfg.codeLen \in 4..8
  /\ ret.kind = "code" =>
       /\ Len(ret.code) = cfg.codeLen
       /\ \A k \in 1..Len(ret.code) : ret.code[k] \in Digit
  /\ waited.code # NoCode =>
       /\ Len(waited.code) = cfg.codeLen
       /\ \A k \in 1..Len(waited.code) : waited.code[k] \in Digit

\* a code of 8 digits returned from an HTML part that writes it with a hyphen
\* and a line break inside
C1_Witness ==
  /\ ret.kind = "code"
  /\ cfg.codeLen = 8
  /\ RetMsg.html # <<>>
  /\ findCode(RetMsg.text, cfg.codeLen) = NoCode
  /\ ret.code = CodeB(8)

\* C2: a returned code never comes from a message whose internal date is
\* before the cutoff, now - (lookback + fudge) minutes, whether the search
\* was widened or not; with a lookback of 60 minutes and no fudge a message
\* 61 minutes old never gives the code.
C2_NeverFromOldMessage ==
  ret.kind = "code" =>
    /\ RetMsg.idate >= clock - (cfg.lookbackMin + cfg.fudgeMin) * MinuteMs
    /\ (cfg.lookbackMin = 60 /\ cfg.fudgeMin = 0) =>
         RetMsg.idate # clock - 61 * MinuteMs

\* lookback 60 minutes, no fudge, SEARCH SINCE: the message 61 minutes old
\* was fetched first and passed over, the code comes from the message 59
\* minutes old
C2_Witness ==
  /\ ret.kind = "code"
  /\ cfg.lookbackMin = 60 /\ cfg.fudgeMin = 0 /\ ~cfg.useGmailRaw
  /\ RetMsg.idate = clock - 59 * MinuteMs
  /\ \E k \in 1..Len(fetched) :
       LET m == boxes[fetched[k].box].msgs[fetched[k].uid]
       IN  /\ m.idate = clock - 61 * MinuteMs
           /\ m.fetch = "ok" /\ m.parseOk
           /\ RegExpTest(cfg.subjFilter, m.subject)
           /\ ExtractCode(m, cfg.codeLen) # NoCode

\* C3 as the specification states it: after a submission that left the
\* challenge showing the cycle is back awaiting a code, or has ended in
\* failure.
C3_Original ==
  (submitted # <<>> /\ challenge) => (pc = "wait" \/ mfa = "error")

\* C3 amended: main submits at most one code and searches the mail at most
\* once; after the submission it is past the 2FA step for good, whether or
\* not the challenge cleared.
C3_AtMostOneSubmission ==
  /\ Len(submitted) <= 1
  /\ calls <= 1
  /\ submitted # <<>> => PastTwofa

\* the one submission was rejected and the job ran to its end
C3_Witness ==
  /\ Len(submitted) = 1
  /\ challenge
  /\ pc = "exit"

\* C4 as the specification states it: the 2FA step is recorded as passed
\* only when the challenge screen has cleared.
C4_Original == mfa = "imap" => ~challenge

\* C4 amended: summary.mfa records the 2FA step as done via imap exactly when
\* submitTwofaCode returned, with no regard to the challenge screen.
C4_PassedIffSubmitted ==
  /\ mfa = "imap" <=> submitted # <<>>
  /\ (mfa = "imap" /\ pc # "submit") => PastTwofa

\* recorded as passed, challenge still showing, exit code 0
C4_Witness ==
  /\ mfa = "imap"
  /\ challenge
  /\ pc = "exit"
  /\ exitCode = 0

\* C5 as the specification states it: with the challenge showing and no code
\* obtained the job does not go on to the report navigation and exits
\* non-zero.
C5_Original ==
  (WaitOver /\ waited.code = NoCode /\ challenge) =>
    /\ pc \notin {"nav", "report"}
    /\ pc = "exit" => exitCode # 0

\* C5 amended: with no code obtained main records the error in summary.mfa,
\* submits nothing and goes on to the report navigation; the exit code is
\* non-zero exactly when a later step threw.
C5_NoCodeGoesOn ==
  (WaitOver /\ waited.code = NoCode) =>
    /\ mfa = "error"
    /\ submitted = <<>>
    /\ PastTwofa
    /\ failedAt \in {"none", "nav", "report"}
    /\ pc = "exit" => (exitCode # 0 <=> failedAt # "none")

\* no code, challenge still showing, the job went through the navigation and
\* the report and exited 0
C5_Witness ==
  /\ waited.how = "return"
  /\ waited.code = NoCode
  /\ challenge
  /\ pc = "exit"
  /\ exitCode = 0

\* C6 as the specification states it: a wait that ends without a code has
\* searched the mail more than once.
C6_Original == (WaitOver /\ waited.code = NoCode) => calls >= 2

\* C6 amended: waitFor2faCode searches the mail exactly once and returns what
\* that search returned, a code or null.
C6_SingleSearch ==
  /\ calls <= 1
  /\ WaitOver => calls = 1
  /\ waited.how = "return" => (ret.kind \in {"code", "none"} /\ waited.code = ret.code)
  /\ (WaitOver /\ ret.kind = "code") => (waited.how = "return" /\ pc # "wait")

\* the one search found nothing and waitFor2faCode returned null
C6_Witness ==
  /\ waited.how = "return"
  /\ waited.code = NoCode
  /\ ret.kind = "none"
  /\ calls = 1

\* C7 as the specification states it: when the search yields no code the wait
\* fails (with Timeout) instead of returning.
C7_Original == (WaitOver /\ ret.kind = "none") => waited.how = "throw"

\* C7 amended: when the search yields no code waitFor2faCode returns null
\* after its single search, with no sleep; the failure is raised by main
\* inside the 2FA step and recorded in summary.mfa.
C7_NullNotTimeout ==
  (WaitOver /\ ret.kind = "none") =>
    /\ waited.how = "return"
    /\ waited.code = NoCode
    /\ mfa = "error"
    /\ clock = JobTime

\* both mailboxes scanned, nothing found, null returned
C7_Witness ==
  /\ WaitOver
  /\ ret.kind = "none"
  /\ scanned = cfg.mailboxes
  /\ waited.how = "return"

\* C8 as the specification states it: after an exception in a search attempt
\* a later attempt is still made.
C8_Original == (WaitOver /\ ret.kind = "throw") => calls >= 2

\* C8 amended: an exception of the search is rethrown by get2faCodeFromImap
\* after the logout and ends the wait; no later attempt is made, main's 2FA
\* step records the error and nothing is submitted.  A message the parser
\* rejects raises nothing: an exception met at a message is one of fetchOne.
C8_ExceptionEndsWait ==
  /\ (ipc = "done" /\ ret.kind = "throw") => ~connected
  /\ (ret.kind = "throw" /\ ret.uid # 0) => RetMsg.fetch = "throw"
  /\ (WaitOver /\ ret.kind = "throw") =>
       /\ waited.how = "throw"
       /\ calls = 1
       /\ mfa = "error"
       /\ submitted = <<>>

\* the search of the second mailbox threw after the first gave nothing
C8_Witness ==
  /\ WaitOver
  /\ ret.kind = "throw"
  /\ ret.box = "AllMail"
  /\ calls = 1

\* C9 as the specification states it: the since of a search is the time of
\* the attempt less the lookback window.
C9_Original ==
  ipc \in {"connect", "scan", "logout"} => cutoffMs = clock - cfg.lookbackMin * MinuteMs

\* C9 amended: the since of a search is computed at the call of
\* get2faCodeFromImap as the time of that call less lookback plus fudge
\* minutes, not from the time the process started.
C9_SinceFromCallTime ==
  ipc \in {"connect", "scan", "logout"} =>
    /\ cutoffMs = clock - (cfg.lookbackMin + cfg.fudgeMin) * MinuteMs
    /\ clock > StartTime

\* a search under way with a fudge of 15 minutes
C9_Witness ==
  /\ ipc = "scan"
  /\ cfg.fudgeMin = 15
  /\ cutoffMs = JobTime - 75 * MinuteMs

\* C10: the mailboxes are scanned in the configured order, none twice; a
\* returned code is the result of the first mailbox whose scan gives one, and
\* no later mailbox is scanned; null is returned only after every mailbox
\* was scanned and gave nothing.
C10_FirstMailboxWins ==
  /\ Len(scanned) <= Len(cfg.mailboxes)
  /\ scanned = SubSeq(cfg.mailboxes, 1, Len(scanned))
  /\ (ipc \in {"logout", "done"} /\ ret.kind = "code") =>
       /\ scanned # <<>>
       /\ ret.box = scanned[Len(scanned)]
       /\ ScanOf(Len(scanned)).out = "code"
       /\ ret.code = ScanOf(Len(scanned)).code
       /\ \A j \in 1..(Len(scanned) - 1) : ScanOf(j).out = "none"
  /\ (ipc \in {"logout", "done"} /\ ret.kind = "none") =>
       /\ scanned = cfg.mailboxes
       /\ \A j \in 1..Len(cfg.mailboxes) : ScanOf(j).out = "none"

\* INBOX holds mail but gives no code, the code comes from AllMail
C10_Witness ==
  /\ ret.kind = "code"
  /\ ret.box = "AllMail"
  /\ scanned = <<"INBOX", "AllMail">>
  /\ boxes["INBOX"].msgs # <<>>
  /\ ipc = "done"

\* C11 as the specification states it: a mailbox that cannot be opened, or
\* whose scan meets a connection error, counts as empty: the call ends
\* without an exception, null is returned only after every mailbox was
\* tried, and the code of the first later mailbox that holds one is returned.
C11_Original ==
  (ipc = "done" /\ scanned # <<>>) =>
    /\ ret.kind # "throw"
    /\ ret.kind = "none" => scanned = cfg.mailboxes
    /\ \A i \in 2..Len(cfg.mailboxes) :
         (ScanOf(i).out = "code" /\ \A j \in 1..(i - 1) : ScanOf(j).out # "code")
           => (ret.kind = "code" /\ ret.code = ScanOf(i).code)

\* C12 as the specification states it: a candidate whose fetch or parse
\* fails is passed over; it never ends the scan with an exception.
C12_Original ==
  ipc \in {"logout", "done"} =>
    \A k \in 1..Len(fetched) :
      LET m == boxes[fetched[k].box].msgs[fetched[k].uid]
      IN  (m.fetch # "ok" \/ ~m.parseOk) =>
            ~(ret.kind = "throw" /\ ret.box = fetched[k].box
                /\ ret.uid = fetched[k].uid)

\* C13 as the specification states it: a job whose submission left the
\* challenge showing has polled the mailbox again for its next attempt.
C13_Original ==
  (submitted # <<>> /\ challenge /\ PastTwofa) => calls >= 2

\* C13 amended: once a code was submitted nothing more is done about the
\* challenge, cleared or not: no further search of the mail, no further
\* submission, of the held code or of another, and main stays past its 2FA
\* step.
C13_NoSecondAttempt ==
  [][submitted # <<>> =>
       /\ submitted' = submitted
       /\ calls' = calls
       /\ ret' = ret
       /\ waited' = waited
       /\ PastTwofa']_vars

\* the code of the one search was rejected and main is loading the report
C13_Witness ==
  /\ submitted = <<ret.code>>
  /\ challenge
  /\ calls = 1
  /\ pc = "report"

\* C14 as the specification states it: when the challenge screen is gone by
\* the time the code is to be submitted, nothing is typed and no failure is
\* recorded.
C14_Original ==
  (PastTwofa /\ waited.code # NoCode /\ submitted = <<>>) =>
    (~challenge /\ mfa # "error")

\* the maximal runs of digits of h, as <<first, last>> positions
RunSpans(h) ==
  { sp \in (1..Len(h)) \X (1..Len(h)) :
      /\ sp[1] <= sp[2]
      /\ \A t \in sp[1]..sp[2] : h[t] \in Digit
      /\ (sp[1] = 1 \/ h[sp[1] - 1] \notin Digit)
      /\ (sp[2] = Len(h) \/ h[sp[2] + 1] \notin Digit) }

SpanLen(sp) == sp[2] - sp[1] + 1

\* r is found as it stands somewhere in R
IsInfix(r, R) ==
  \E a \in 1..(Len(R) - Len(r) + 1) : SubSeq(R, a, a + Len(r) - 1) = r

\* the digits of the parts of the message an extractor was called on
SubjectDigits == Filter(tin.msg.subject, Digit)

TextDigits == Filter(tin.msg.text, Digit)

HtmlDigits == Filter(tin.msg.html, Digit)

\* C15: for every N in 4..8 a code findCode returns is never found inside a
\* run of N+1 or more digits of the haystack, and findCode returns nothing
\* for a haystack whose digits are one run of N-1.
C15_NeverCutFromLongerRun ==
  tout.by = "findCode" =>
    /\ tin.codeLen \in 4..8
    /\ tout.code # NoCode =>
         /\ Len(tout.code) = tin.codeLen
         /\ \A sp \in RunSpans(tin.hay) :
              SpanLen(sp) > tin.codeLen =>
                ~IsInfix(tout.code, SubSeq(tin.hay, sp[1], sp[2]))
    /\ (\E sp \in RunSpans(tin.hay) :
          RunSpans(tin.hay) = {sp} /\ SpanLen(sp) = tin.codeLen - 1)
         => tout.code = NoCode

\* a run of N+1 digits is passed over and the run of N after it is returned
C15_Witness ==
  /\ tout.by = "findCode"
  /\ tout.code = Descending(tin.codeLen)
  /\ \E sp \in RunSpans(tin.hay) :
       sp[1] = 1 /\ SpanLen(sp) = tin.codeLen + 1

\* C16 as the specification states it: for every N in 4..8 a message that
\* carries a code of N digits in its subject, its text or its HTML (between
\* tags or between entities) and no other digit gives exactly that code.
C16_Original ==
  (/\ tout.by = "scanMailbox"
   /\ tin.msg.raw = <<>>
   /\ Len(TextDigits \o HtmlDigits \o SubjectDigits) = tin.codeLen
   /\ TextDigits \o HtmlDigits \o SubjectDigits
        \in {TextDigits, HtmlDigits, SubjectDigits})
    => tout.code = TextDigits \o HtmlDigits \o SubjectDigits

\* C17: two runs of digits joined by spaces or hyphens that hold N digits
\* together are returned as the N digits alone, "123 456" and "123-456" as
\* "123456"; when they hold N+1 digits together and neither holds N, as in
\* "123-4567" with N = 6, nothing is returned.
C17_SeparatorsNormalized ==
  tout.by = "findCode" =>
    /\ (tin.codeLen = 6 /\ tin.hay \in { <<"1", "2", "3", " ", "4", "5", "6">>,
                                          <<"1", "2", "3", "-", "4", "5", "6">> })
         => tout.code = <<"1", "2", "3", "4", "5", "6">>
    /\ (tin.codeLen = 6 /\ tin.hay = <<"1", "2", "3", "-", "4", "5", "6", "7">>)
         => tout.code = NoCode
    /\ \A s1 \in RunSpans(tin.hay), s2 \in RunSpans(tin.hay) :
         (/\ RunSpans(tin.hay) = {s1, s2}
          /\ s1[2] < s2[1]
          /\ \A t \in (s1[2] + 1)..(s2[1] - 1) : tin.hay[t] \in {" ", "-"})
         => /\ SpanLen(s1) + SpanLen(s2) = tin.codeLen
                 => tout.code = Filter(tin.hay, Digit)
            /\ (/\ SpanLen(s1) + SpanLen(s2) = tin.codeLen + 1
                 /\ SpanLen(s1) < tin.codeLen
                 /\ SpanLen(s2) < tin.codeLen)
                 => tout.code = NoCode

\* "123-456" searched for a code of 6 digits
C17_Witness ==
  /\ tout.by = "findCode"
  /\ tin.codeLen = 6
  /\ tin.hay = <<"1", "2", "3", "-", "4", "5", "6">>
  /\ tout.code = <<"1", "2", "3", "4", "5", "6">>

\* C18 as the specification states it: when two or three of text, HTML and
\* subject carry a code each, the code of the first of them in that order is
\* the one returned.
C18_Original ==
  (/\ tout.by = "scanMailbox"
   /\ \A d \in {TextDigits, HtmlDigits, SubjectDigits} :
        d = <<>> \/ Len(d) = tin.codeLen
   /\ Cardinality({TextDigits, HtmlDigits, SubjectDigits} \ {<<>>}) >= 2)
    => tout.code = IF TextDigits # <<>> THEN TextDigits
                   ELSE IF HtmlDigits # <<>> THEN HtmlDigits
                   ELSE SubjectDigits

\* C19 as the specification states it: what the configured expression finds
\* in subject, text and tag-stripped HTML put together is the code returned.
C19_Original ==
  LET body == normalizeDigits(tin.msg.subject \o <<"\n">> \o tin.msg.text
                               \o <<"\n">> \o stripHtml(tin.msg.html))
  IN  (tout.by = "scanMailbox" /\ MatchCodeRegex(body, tin.regexLen) # NoCode)
        => tout.code = MatchCodeRegex(body, tin.regexLen)

\* C19 amended: the runner's scan uses no configured expression: its code
\* has IMAP_CODE_LEN digits and is what the generic pattern finds in the
\* text, the stripped HTML, the subject or the raw source taken one by one,
\* and is null when none of them gives one; the smoke script uses the
\* configured expression alone, on subject, text and HTML as they stand: its
\* code is a run of the configured length standing in that body, and null
\* when the body has no run of that length.
C19_GenericPatternOnly ==
  /\ tout.by = "scanMailbox" =>
       LET parts == {tin.msg.text, stripHtml(tin.msg.html), tin.msg.subject,
                     tin.msg.raw}
       IN  /\ tout.code # NoCode => Len(tout.code) = tin.codeLen
           /\ tout.code \in {NoCode} \cup {findCode(f, tin.codeLen) : f \in parts}
           /\ (\A f \in parts : findCode(f, tin.codeLen) = NoCode)
                => tout.code = NoCode
  /\ tout.by = "fetchNewestMfaCode" =>
       /\ tout.code # NoCode =>
            /\ Len(tout.code) = tin.regexLen
            /\ IsInfix(tout.code, SmokeBody(tin.msg))
       /\ (\A sp \in RunSpans(SmokeBody(tin.msg)) : SpanLen(sp) # tin.regexLen)
            => tout.code = NoCode

\* the configured expression asks for 4 digits and the text holds 4, the
\* code length is another: the scan returns nothing
C19_Witness ==
  /\ tout.by = "scanMailbox"
  /\ tin.regexLen # tin.codeLen
  /\ MatchCodeRegex(tin.msg.text, tin.regexLen) # NoCode
  /\ tout.code = NoCode

\* C20 as the specification states it: when subject, text and HTML give no
\* code the raw source is searched with its soft line breaks taken out.
C20_Original ==
  (/\ tout.by = "scanMailbox"
   /\ findCode(tin.msg.text, tin.codeLen) = NoCode
   /\ findCode(stripHtml(tin.msg.html), tin.codeLen) = NoCode
   /\ findCode(tin.msg.subject, tin.codeLen) = NoCode
   /\ tin.msg.raw # <<>>)
    => tout.code = findCode(ReplaceAll(tin.msg.raw, <<"=", "\n">>, <<>>), tin.codeLen)

\* C22 as the specification states it: when the searches of a mailbox answer
\* nothing its most recent messages are examined all the same, so a scan
\* that ends with nothing has fetched a message of every mailbox that holds
\* one.
C22_Original ==
  (ipc = "done" /\ ret.kind = "none") =>
    \A i \in 1..Len(cfg.mailboxes) :
      boxes[cfg.mailboxes[i]].msgs # <<>> =>
        \E k \in 1..Len(fetched) : fetched[k].box = cfg.mailboxes[i]

\* C22 amended: only messages that meet the terms of the search are ever
\* fetched; when no message of a mailbox meets them (the since date widened
\* by a day, or the terms of X-GM-RAW), no message of that mailbox is
\* fetched and the scan goes on to the next mailbox, whatever the mailbox
\* holds.
C22_NoFallback ==
  LET Answered(m) ==
        IF cfg.useGmailRaw
        THEN /\ m.idate >= cutoffMs
             /\ cfg.subjFilter = <<>> \/ RegExpTest(cfg.subjFilter, m.subject)
             /\ cfg.fromFilter = <<>> \/ RegExpTest(cfg.fromFilter, m.from)
        ELSE DateOf(m.idate) >= DateOf(cutoffMs - DayMs)
      Holds(b) == \E u \in 1..Len(boxes[b].msgs) : Answered(boxes[b].msgs[u])
  IN  /\ \A k \in 1..Len(fetched) :
           Answered(boxes[fetched[k].box].msgs[fetched[k].uid])
      /\ (ipc = "done" /\ ret.kind = "none") =>
           \A i \in 1..Len(cfg.mailboxes) :
             ~Holds(cfg.mailboxes[i]) =>
               \A k \in 1..Len(fetched) : fetched[k].box # cfg.mailboxes[i]

\* X-GM-RAW answers nothing for INBOX, which holds a fresh message with a
\* code under another subject: nothing is fetched, null is returned
C22_Witness ==
  /\ ipc = "done"
  /\ ret.kind = "none"
  /\ cfg.useGmailRaw
  /\ fetched = <<>>
  /\ \E u \in 1..Len(boxes["INBOX"].msgs) :
       LET m == boxes["INBOX"].msgs[u]
       IN  /\ ~TooOld(m, cutoffMs)
           /\ m.fetch = "ok" /\ m.parseOk
           /\ ExtractCode(m, cfg.codeLen) # NoCode

\* C25 as the specification states it: with the IMAP user or password not
\* set the job fails before any connection is opened, the portal login
\* included.
C25_Original == ~cfg.creds => pc \in {"login", "exit"}

\* C25 amended: the missing credentials are detected on entry to
\* get2faCodeFromImap, which main calls after the portal login and only when
\* the challenge screen shows: no mailbox connection is opened, no mailbox
\* locked, no message fetched, and the call ends with an exception.
C25_NoMailboxConnection ==
  ~cfg.creds =>
    /\ ~connected
    /\ client = NewClient
    /\ scanned = <<>> /\ fetched = <<>>
    /\ ipc \in {"idle", "start", "done"}
    /\ ipc = "done" => ret.kind = "throw"
    /\ calls > 0 => clock > StartTime

\* no credentials: the call threw after the login, the error is recorded and
\* main is at the report navigation
C25_Witness ==
  /\ ~cfg.creds
  /\ ret.kind = "throw"
  /\ mfa = "error"
  /\ pc = "nav"
  /\ clock = JobTime

\* C27: when get2faCodeFromImap has ended, whatever way, no mailbox lock is
\* held, the connection is closed, and logout was called once if a client
\* was created (the credentials were there); a lock is never held from one
\* mailbox to the next.
C27_ClosedWithinAttempt ==
  /\ client.locks = {}
  /\ connected => ipc \in {"scan", "logout"}
  /\ ipc \in {"done", "idle"} =>
       /\ ~connected
       /\ client.logouts = (IF cfg.creds /\ calls > 0 THEN 1 ELSE 0)
  /\ ipc \notin {"done", "idle"} => client.logouts = 0

\* fetchOne threw while the lock of the mailbox was held: the lock is
\* released, the client logged out
C27_Witness ==
  /\ ipc = "done"
  /\ ret.kind = "throw"
  /\ ret.uid # 0
  /\ client = [locks |-> {}, logouts |-> 1]

\* C28: a second call of findCode on the input of the first gives the
\* result of the first, whatever the first call found and wherever its
\* pattern stopped.
C28_SecondCallSame ==
  tout.by = "findCode again" =>
    /\ tout.code = tout.first
    /\ tout.code = findCode(tin.hay, tin.codeLen)

\* the first call returned a code from the middle of the haystack, its
\* pattern stopped behind that code, and the second call returned it again
C28_Witness ==
  /\ tout.by = "findCode again"
  /\ tout.code # NoCode
  /\ LastIndexAfter(normalizeDigits(tin.hay), 1, tin.codeLen) > tin.codeLen
  /\ LastIndexAfter(normalizeDigits(tin.hay), 1, tin.codeLen)
       < Len(normalizeDigits(tin.hay))

\* C21 as the specification states it: the ladder goes from everything to
\* without unseen, then without the sender, then since alone, and the first
\* answer that is not empty is used.
C21_Original ==
  (tout.by = "openAndGetCode" /\ tin.failing = 0) =>
    tout.uids = Ladder(tin.msgs, QueriesUnseenFirst(tin), 0, 1).uids

\* C21 amended: the debug script searches with since + subject + the sender
\* if configured + unseen if requested, then with since + subject + unseen
\* (the sender dropped first, unseen asked for in any case), then with
\* since + subject, then with since alone; a search that throws counts as
\* empty; the first answer that is not empty is used whole.
C21_SenderDroppedFirst ==
  tout.by = "openAndGetCode" =>
    LET since  == JobTime - Part000LookbackMinutes * MinuteMs
        Fresh  == {u \in 1..Len(tin.msgs) : DateOf(tin.msgs[u].idate) >= DateOf(since)}
        Subj   == {u \in Fresh : Contains(tin.msgs[u].subject, tin.subjectFilter)}
        Unseen == {u \in Subj : ~tin.msgs[u].seen}
        Narrow == {u \in Subj :
                     /\ tin.fromFilter = <<>> \/ Contains(tin.msgs[u].from, tin.fromFilter)
                     /\ tin.onlyUnseen => ~tin.msgs[u].seen}
        chain  == <<Narrow, Unseen, Subj, Fresh>>
        usable(k) == k # tin.failing /\ chain[k] # {}
        found  == {tout.uids[i] : i \in 1..Len(tout.uids)}
    IN  /\ tout.step \in 0..4
        /\ tout.step = 0 => (found = {} /\ \A k \in 1..4 : ~usable(k))
        /\ tout.step # 0 =>
             /\ usable(tout.step)
             /\ found = chain[tout.step]
             /\ \A j \in 1..(tout.step - 1) : ~usable(j)

\* a read message of the sender waits with the subject, but the second
\* query took the unread message of another sender
C21_Witness ==
  /\ tout.by = "openAndGetCode"
  /\ tin.failing = 0
  /\ tin.fromFilter = Sender
  /\ tin.onlyUnseen
  /\ tout.step = 2
  /\ \E u \in 1..Len(tin.msgs) :
       /\ tin.msgs[u].seen
       /\ tin.msgs[u].from = Sender
       /\ Contains(tin.msgs[u].subject, tin.subjectFilter)
       /\ tin.msgs[u].idate > JobTime - Part000LookbackMinutes * MinuteMs
       /\ \A i \in 1..Len(tout.uids) : tout.uids[i] # u

\* C23 as the specification states it: a code returned by a scanner is the
\* code of the newest message among the candidates that holds one.
C23_Original ==
  /\ (tout.by = "openAndGetCode" /\ tout.out = "code") =>
       \A i \in 1..Len(tout.uids) :
         tout.uids[i] > tout.uid =>
           MatchCodeRegex(SmokeBody(tin.msgs[tout.uids[i]]), DefaultCodeLen) = NoCode
  /\ (tout.by = "scanMailbox" /\ tout.out = "code") =>
       \A v \in 1..Len(tin.msgs) :
         v > tout.uid =>
           \/ ExtractCode(tin.msgs[v], DefaultCodeLen) = NoCode
           \/ tin.msgs[v].fetch # "ok" \/ ~tin.msgs[v].parseOk
           \/ TooOld(tin.msgs[v], CutoffOf(clock, BoxConfig(tin)))
           \/ ~RegExpTest(SubjMfa, tin.msgs[v].subject)

\* C23 amended: scanMailbox of the runner examines the candidates of the
\* search from the highest identifier down, the last maxScan of them at
\* most, and ends at the first that yields a code: a code returned is the
\* code of the newest candidate under the cap that is eligible and holds
\* one, and when nothing is returned no candidate under the cap is eligible
\* with a code.  The debug script goes through its newest candidates twice,
\* the subjects first and the bodies after: a code in a subject is returned
\* before any body is read.
C23_NewestEligibleFirst ==
  /\ (tout.by = "openAndGetCode" /\ tout.out = "code") =>
       LET Found == {tout.uids[i] : i \in 1..Len(tout.uids)}
           InSubject(u) == MatchCodeRegex(tin.msgs[u].subject, DefaultCodeLen) # NoCode
           InBody(u) == MatchCodeRegex(SmokeBody(tin.msgs[u]), DefaultCodeLen) # NoCode
       IN  /\ tout.uid \in Found
           /\ tout.where = "subject" =>
                /\ InSubject(tout.uid)
                /\ \A v \in Found : v > tout.uid => ~InSubject(v)
           /\ tout.where = "body" =>
                /\ InBody(tout.uid)
                /\ \A v \in Found : ~InSubject(v) /\ (v > tout.uid => ~InBody(v))
  /\ tout.by = "scanMailbox" =>
    LET c      == BoxConfig(tin)
        cut    == CutoffOf(clock, c)
        uids   == SearchUids(tin.msgs, c, cut)
        Capped == {uids[i] : i \in {k \in 1..Len(uids) : k > Len(uids) - c.maxScan}}
        Yields(u) ==
          LET m == tin.msgs[u]
          IN  /\ m.fetch = "ok" /\ m.parseOk /\ ~TooOld(m, cut)
              /\ RegExpTest(c.subjFilter, m.subject)
              /\ ExtractCode(m, c.codeLen) # NoCode
    IN  /\ Len(tout.seen) <= c.maxScan
        /\ \A i \in 1..Len(tout.seen) : tout.seen[i] \in Capped
        /\ \A i, j \in 1..Len(tout.seen) : i < j => tout.seen[i] > tout.seen[j]
        /\ tout.out = "code" =>
             /\ tout.uid \in Capped
             /\ Yields(tout.uid)
             /\ tout.code = ExtractCode(tin.msgs[tout.uid], c.codeLen)
             /\ tout.seen[Len(tout.seen)] = tout.uid
             /\ \A v \in Capped : v > tout.uid =>
                  (~Yields(v) /\ tin.msgs[v].fetch # "throw")
        /\ tout.out = "none" => \A v \in Capped : ~Yields(v)
        /\ tout.out = "throw" =>
             /\ tin.msgs[tout.uid].fetch = "throw"
             /\ \A v \in Capped : v > tout.uid => ~Yields(v)

\* two messages that both yield a code: the code of the later one is
\* returned and the earlier one is not fetched
C23_Witness ==
  /\ tout.by = "scanMailbox"
  /\ tout.out = "code"
  /\ Len(tin.msgs) = 2
  /\ tout.uid = 2
  /\ tout.seen = <<2>>
  /\ tin.maxScan >= 2
  /\ ExtractCode(tin.msgs[1], DefaultCodeLen) \notin {NoCode, tout.code}
  /\ tin.msgs[1].fetch = "ok" /\ tin.msgs[1].parseOk
  /\ ~TooOld(tin.msgs[1], CutoffOf(clock, BoxConfig(tin)))
  /\ RegExpTest(SubjMfa, tin.msgs[1].subject)

C26_Original ==
  tout.by \in {"inspect", "part_000", "smoke step"} =>
    \A i \in 1..Len(tout.lines) :
      Filter(tout.lines[i], Digit)
        \in {<<>>, SubSeq(tin.code, Len(tin.code) - 1, Len(tin.code))}

\* C29 as stated: with EMAIL_ENABLED=false emailReport creates no
\* transport and sends no message.
C29_Original ==
  (tout.by = "emailReport" /\ tin.enabled = "false") =>
    (tout.transports = 0 /\ tout.sent = 0)

\* C30 as stated: when the smoke test has ended and a recorded step failed,
\* the summary file is written, summary.ok is false and the exit code is
\* not 0; the exit code is 0 only when every recorded step is ok.
C30_Original ==
  (tout.by = "smoke" /\ tout.at = "exited") =>
    /\ (\E k \in 1..Len(tout.steps) : ~tout.steps[k]) =>
         (tout.written /\ ~tout.ok /\ tout.exit # 0)
    /\ tout.exit = 0 => \A k \in 1..Len(tout.steps) : tout.steps[k]

\* C33: the mailbox is contacted only while the challenge screen shows, and
\* submitTwofaCode is entered and types only with the challenge seen and a
\* code that is a string of codeLen digits, never null or empty.
C33_SubmitOnlyRealCode ==
  [][/\ calls' # calls => (challenge /\ pc = "mfa")
     /\ (pc' = "submit" /\ pc # "submit") =>
          (challenge /\ waited'.how = "return" /\ waited'.code # NoCode
             /\ Len(waited'.code) = cfg.codeLen)
     /\ submitted' # submitted =>
          (/\ challenge
           /\ waited.code # NoCode
           /\ submitted' = Append(submitted, waited.code))]_vars

\* the challenge showed, the mailbox was asked once and the code it gave
\* was typed
C33_Witness ==
  /\ calls = 1
  /\ ret.kind = "code"
  /\ submitted = <<ret.code>>
  /\ ret.code # NoCode

\* C31 as the specification states it: whichever scanner gives a code, the
\* message it comes from matches the subject filter and, when one is
\* configured, the sender filter.
C31_Original ==
  /\ (tout.by = "scanMailbox filtered" /\ tout.out = "code") =>
       /\ tin.subjFilter = <<>> \/ RegExpTest(tin.subjFilter, tin.msgs[tout.uid].subject)
       /\ tin.fromFilter = <<>> \/ RegExpTest(tin.fromFilter, tin.msgs[tout.uid].from)
  /\ (tout.by = "openAndGetCode" /\ tout.out = "code") =>
       /\ Contains(tin.msgs[tout.uid].subject, tin.subjectFilter)
       /\ tin.fromFilter = <<>> \/ Contains(tin.msgs[tout.uid].from, tin.fromFilter)

\* C31 amended: scanMailbox of the runner gives a code only from a message
\* whose subject matches the subject filter, when one is configured, and
\* whose sender matches the sender filter, when one is configured, and it
\* passes over a message that does not match even when that leaves no code.
\* The debug script holds to the sender in its first query alone and to the
\* subject in its first three: from the second query on a message of
\* another sender gives the code, in the fourth one with another subject.
C31_FiltersPerMessage ==
  /\ tout.by = "scanMailbox filtered" =>
       LET Passes(u) ==
             /\ tin.subjFilter = <<>>
                  \/ RegExpTest(tin.subjFilter, tin.msgs[u].subject)
             /\ tin.fromFilter = <<>>
                  \/ RegExpTest(tin.fromFilter, tin.msgs[u].from)
       IN  /\ tout.out \in {"code", "none"}
           /\ tout.out = "code" =>
                /\ Passes(tout.uid)
                /\ \A v \in 1..Len(tin.msgs) : v > tout.uid => ~Passes(v)
           /\ tout.out = "none" => \A v \in 1..Len(tin.msgs) : ~Passes(v)
  /\ (tout.by = "openAndGetCode" /\ tout.out = "code") =>
       /\ tout.step = 1 =>
            (tin.fromFilter = <<>>
               \/ Contains(tin.msgs[tout.uid].from, tin.fromFilter))
       /\ tout.step \in 1..3 =>
            Contains(tin.msgs[tout.uid].subject, tin.subjectFilter)

\* both filters configured, a message of another sender is the newest and
\* the code comes from the older message of the portal
C31_Witness ==
  /\ tout.by = "scanMailbox filtered"
  /\ tin.subjFilter = SubjMfa
  /\ tin.fromFilter = Sender
  /\ Len(tin.msgs) = 2
  /\ tin.msgs[2].from = OtherSender
  /\ tin.msgs[2].subject = SubjMfa
  /\ tout.out = "code"
  /\ tout.uid = 1


\* ---------------------------------------------------------------------------
\* The report steps of the runner on their own: loginWithRetries,
\* addMidsToAchReport, exportCurrentAch and the part of main from the
\* browser launch to the exit. tin holds the environment values and the
\* arguments of the one call that is followed, tout the position of the call
\* and what it has done so far.
\* ---------------------------------------------------------------------------

\* the largest LOGIN_RETRIES followed (the default is 3)
MaxLogin == 3

\* for (let i = 1; i <= attempts; i++) of loginWithRetries
LoginGoesOnOneMore(i, attempts) == i <= attempts + 1

LoginGoesOn(i, attempts) == i <= attempts

\* loginWithRetries up to its loop: lastErr = null (0 here, a failed
\* attempt leaves its own number), i = 1
LoginStart ==
  /\ tin.kind = "login"
  /\ tout.by = "unset"
  /\ tout' = [by |-> "loginWithRetries", at |-> "loop", i |-> 1, lastErr |-> 0,
              events |-> <<>>, err |-> -1]
  /\ UNCHANGED <<tin, cfg, boxes, clock>>
  /\ UNCHANGED mainVars
  /\ UNCHANGED imapVars

\* one turn of the loop: the backoff wait when i > 1, login(page), return
\* when it resolved, lastErr = e when it threw
LoginAttempt ==
  /\ tout.by = "loginWithRetries"
  /\ tout.at = "loop"
  /\ LoginGoesOn(tout.i, tin.attempts)
  /\ \E ok \in BOOLEAN :
       LET waitedFirst == IF tout.i > 1 THEN Append(tout.events, "wait")
                          ELSE tout.events
       IN  tout' = IF ok
                   THEN [tout EXCEPT !.events = Append(waitedFirst, "ok"),
                                     !.at = "returned"]
                   ELSE [tout EXCEPT !.events = Append(waitedFirst, "fail"),
                                     !.lastErr = tout.i, !.i = tout.i + 1]
  /\ UNCHANGED <<tin, cfg, boxes, clock>>
  /\ UNCHANGED mainVars
  /\ UNCHANGED imapVars

\* throw lastErr || new Error('Login failed after retries'): err is the
\* number of the attempt whose error is thrown, 0 for the new Error
LoginGiveUp ==
  /\ tout.by = "loginWithRetries"
  /\ tout.at = "loop"
  /\ ~LoginGoesOn(tout.i, tin.attempts)
  /\ tout' = [tout EXCEPT !.at = "thrown", !.err = tout.lastErr]
  /\ UNCHANGED <<tin, cfg, boxes, clock>>
  /\ UNCHANGED mainVars
  /\ UNCHANGED imapVars

\* ---- addMidsToAchReport

\* the largest MID_ADD_RETRIES followed (the default is 2)
MaxRetries == 1

\* merchant ids as loadMerchants gives them: strings, no two the same. The
\* portal's ids are long numbers; the merchants file may hold any string
MidLong == <<"8", "4", "0", "1", "0", "0">>

MidShort == <<"1", "2", "3", "4", "5">>

Mids == {MidLong, MidShort}

\* the text of the chip the portal shows for an id ("840100065415 - name")
ChipOf(mid) == mid \o <<" ", "-", " ", "S">>

\* what \b stands next to, of the characters used here
NonWord == WhiteSpace \cup {"-"}

\* the {6,} of /\b(\d{6,})\b/
MinChipDigits == 6

\* (t || '').match(/\b(\d{6,})\b/)?.[1]; <<>> where there is no match
ChipId(t) ==
  LET spans == { sp \in RunSpans(t) :
                   /\ SpanLen(sp) >= MinChipDigits
                   /\ (sp[1] = 1 \/ t[sp[1] - 1] \in NonWord)
                   /\ (sp[2] = Len(t) \/ t[sp[2] + 1] \in NonWord) }
  IN  IF spans = {} THEN <<>>
      ELSE LET first == CHOOSE sp \in spans : \A o \in spans : sp[1] <= o[1]
           IN  SubSeq(t, first[1], first[2])

\* const existing = new Set(...): the ids read off the chips shown; the
\* .catch(() => []) leaves it empty when the chips could not be read
Existing(chips, readOk) ==
  IF readOk THEN { ChipId(t) : t \in chips } \ {<<>>} ELSE {}

\* ensureChip: a chip whose text has the id in it is visible in time
ensureChip(mid, chips) == \E t \in chips : IsInfix(mid, t)

\* attempt <= retries of the first pass, attempt <= retries + 1 of the sweep
MidAttemptGoesOnOneMore(attempt, last) == attempt <= last + 1

MidAttemptGoesOn(attempt, last) == attempt <= last

\* the order of the recovery sweep: the misses, the last of mids moved to
\* the front when it is one of them
SweepOrder(misses, mids) ==
  LET last == mids[Len(mids)]
  IN  IF \E j \in 1..Len(misses) : misses[j] = last
      THEN <<last>> \o SelectSeq(misses, LAMBDA x : x # last)
      ELSE misses

\* addMidsToAchReport up to its first loop
MidsStart ==
  /\ tin.kind = "mids"
  /\ tout.by = "unset"
  /\ tout' = [by |-> "addMidsToAchReport", at |-> "first", k |-> 1,
              attempt |-> 0, chips |-> tin.chips,
              existing |-> Existing(tin.chips, tin.readOk),
              misses |-> <<>>, order |-> <<>>, still |-> <<>>,
              log |-> <<>>, warned |-> FALSE]
  /\ UNCHANGED <<tin, cfg, boxes, clock>>
  /\ UNCHANGED mainVars
  /\ UNCHANGED imapVars

\* typeWaitClick(mid): the id is typed, the portal adds its chip or does
\* not, and ensureChip answers from the chips then shown
TypedChips(mid, chips, added) ==
  IF added THEN chips \cup {ChipOf(mid)} ELSE chips

\* the body of for (const mid of mids), one await typeWaitClick at a time:
\* the continue for an id in existing, an attempt, or the nudge and the
\* ensureChip(mid, 800) after the last attempt
MidsFirstPass ==
  /\ tout.by = "addMidsToAchReport"
  /\ tout.at = "first"
  /\ tout.k <= Len(tin.mids)
  /\ LET mid == tin.mids[tout.k]
     IN  IF tout.attempt = 0 /\ mid \in tout.existing
         THEN tout' = [tout EXCEPT !.k = @ + 1]
         ELSE IF MidAttemptGoesOn(tout.attempt, tin.retries)
         THEN \E added \in BOOLEAN :
                LET chips == TypedChips(mid, tout.chips, added)
                    ok == ensureChip(mid, chips)
                    entry == [mid |-> mid, pass |-> "first", ok |-> ok,
                              known |-> mid \in tout.existing]
                IN  tout' = IF ok
                            THEN [tout EXCEPT !.chips = chips,
                                              !.log = Append(@, entry),
                                              !.existing = @ \cup {mid},
                                              !.k = @ + 1, !.attempt = 0]
                            ELSE [tout EXCEPT !.chips = chips,
                                              !.log = Append(@, entry),
                                              !.attempt = @ + 1]
         ELSE \E late \in BOOLEAN :
                LET chips == TypedChips(mid, tout.chips, late)
                IN  tout' = IF ensureChip(mid, chips)
                            THEN [tout EXCEPT !.chips = chips,
                                              !.existing = @ \cup {mid},
                                              !.k = @ + 1, !.attempt = 0]
                            ELSE [tout EXCEPT !.misses = Append(@, mid),
                                              !.k = @ + 1, !.attempt = 0]
  /\ UNCHANGED <<tin, cfg, boxes, clock>>
  /\ UNCHANGED mainVars
  /\ UNCHANGED imapVars

\* if (misses.length) and the order of the sweep
MidsSweepStart ==
  /\ tout.by = "addMidsToAchReport"
  /\ tout.at = "first"
  /\ tout.k > Len(tin.mids)
  /\ tout' = IF tout.misses = <<>>
             THEN [tout EXCEPT !.at = "returned"]
             ELSE [tout EXCEPT !.at = "sweep", !.k = 1, !.attempt = 0,
                               !.order = SweepOrder(tout.misses, tin.mids)]
  /\ UNCHANGED <<tin, cfg, boxes, clock>>
  /\ UNCHANGED mainVars
  /\ UNCHANGED imapVars

\* the body of for (const mid of order), one await typeWaitClick at a time
MidsSweep ==
  /\ tout.by = "addMidsToAchReport"
  /\ tout.at = "sweep"
  /\ tout.k <= Len(tout.order)
  /\ LET mid == tout.order[tout.k]
     IN  IF MidAttemptGoesOn(tout.attempt, tin.retries + 1)
         THEN \E added \in BOOLEAN :
                LET chips == TypedChips(mid, tout.chips, added)
                    ok == ensureChip(mid, chips)
                    entry == [mid |-> mid, pass |-> "sweep", ok |-> ok,
                              known |-> mid \in tout.existing]
                IN  tout' = IF ok
                            THEN [tout EXCEPT !.chips = chips,
                                              !.log = Append(@, entry),
                                              !.k = @ + 1, !.attempt = 0]
                            ELSE [tout EXCEPT !.chips = chips,
                                              !.log = Append(@, entry),
                                              !.attempt = @ + 1]
         ELSE tout' = [tout EXCEPT !.still = Append(@, mid),
                                   !.k = @ + 1, !.attempt = 0]
  /\ UNCHANGED <<tin, cfg, boxes, clock>>
  /\ UNCHANGED mainVars
  /\ UNCHANGED imapVars

\* if (stillMissing.length) { if (warnOnly) console.warn(msg); else throw }
MidsFinish ==
  /\ tout.by = "addMidsToAchReport"
  /\ tout.at = "sweep"
  /\ tout.k > Len(tout.order)
  /\ tout' = IF tout.still = <<>> THEN [tout EXCEPT !.at = "returned"]
             ELSE IF tin.warnOnly
             THEN [tout EXCEPT !.at = "returned", !.warned = TRUE]
             ELSE [tout EXCEPT !.at = "thrown"]
  /\ UNCHANGED <<tin, cfg, boxes, clock>>
  /\ UNCHANGED mainVars
  /\ UNCHANGED imapVars

\* ---- exportCurrentAch

\* the most child frames of the page followed
MaxChildFrames == 1

\* the number of selectors of expSelList followed (the list holds the
\* configured buttons and six built-in ones)
MaxSelectors == 2

\* page.mainFrame()
MainFrame == <<"main", 0>>

\* page.frames() of Playwright: every frame attached to the page, the main
\* frame first
PageFrames(children) == <<MainFrame>> \o [c \in 1..children |-> <<"child", c>>]

\* const frames = [page.mainFrame(), ...page.frames()]
ExportFrames(children) == <<MainFrame>> \o PageFrames(children)

\* the try blocks of attemptDownload in the order they are written
StrategiesForcedFirst == <<"forced click", "data-url", "normal click", "script click">>

Strategies == <<"normal click", "data-url", "forced click", "script click">>

\* exportCurrentAch up to its loops; step 0 of a pair is loc.waitFor
\* ({state: 'attached'}), steps 1..4 the strategies of attemptDownload
ExportStart ==
  /\ tin.kind = "export"
  /\ tout.by = "unset"
  /\ tout' = [by |-> "exportCurrentAch", at |-> "scan", fi |-> 1, si |-> 1,
              step |-> 0, log |-> <<>>, out |-> "none"]
  /\ UNCHANGED <<tin, cfg, boxes, clock>>
  /\ UNCHANGED mainVars
  /\ UNCHANGED imapVars

\* si++ and, past the last selector, fi++ of the two for loops
NextPair(o, selectors) ==
  IF o.si < selectors
  THEN [o EXCEPT !.si = @ + 1, !.step = 0]
  ELSE [o EXCEPT !.fi = @ + 1, !.si = 1, !.step = 0]

\* loc.waitFor({state: 'attached'}) of one frame and selector: continue
\* when nothing is attached in time
ExportLocate ==
  /\ tout.by = "exportCurrentAch"
  /\ tout.at = "scan"
  /\ tout.step = 0
  /\ tout.fi <= Len(ExportFrames(tin.children))
  /\ \E attached \in BOOLEAN :
       LET entry == [fi |-> tout.fi, si |-> tout.si,
                     frame |-> ExportFrames(tin.children)[tout.fi],
                     what |-> "locate", got |-> attached]
           seen == [tout EXCEPT !.log = Append(@, entry)]
       IN  tout' = IF attached THEN [seen EXCEPT !.step = 1]
                   ELSE NextPair(seen, tin.selectors)
  /\ UNCHANGED <<tin, cfg, boxes, clock>>
  /\ UNCHANGED mainVars
  /\ UNCHANGED imapVars

\* one try block of attemptDownload: return outPath when a download came
\* and was saved, the next block when it threw (or, for the data-url block,
\* when the control has no data-url); return null after the last block,
\* and then saveArtifacts and the next selector
ExportAttempt ==
  /\ tout.by = "exportCurrentAch"
  /\ tout.at = "scan"
  /\ tout.step \in 1..Len(Strategies)
  /\ \E saved \in BOOLEAN :
       LET entry == [fi |-> tout.fi, si |-> tout.si,
                     frame |-> ExportFrames(tin.children)[tout.fi],
                     what |-> Strategies[tout.step], got |-> saved]
           seen == [tout EXCEPT !.log = Append(@, entry)]
       IN  tout' = IF saved
                   THEN [seen EXCEPT !.at = "returned", !.out = "outPath"]
                   ELSE IF tout.step < Len(Strategies)
                   THEN [seen EXCEPT !.step = @ + 1]
                   ELSE NextPair(seen, tin.selectors)
  /\ UNCHANGED <<tin, cfg, boxes, clock>>
  /\ UNCHANGED mainVars
  /\ UNCHANGED imapVars

\* throw new Error('ACH export/download button not matched ...') after
\* the loops
ExportGiveUp ==
  /\ tout.by = "exportCurrentAch"
  /\ tout.at = "scan"
  /\ tout.fi > Len(ExportFrames(tin.children))
  /\ tout' = [tout EXCEPT !.at = "thrown"]
  /\ UNCHANGED <<tin, cfg, boxes, clock>>
  /\ UNCHANGED mainVars
  /\ UNCHANGED imapVars

\* ---- main from the browser launch to the exit

\* the most merchants of the merchants file followed
MaxMerchants == 2

\* the steps of the try block of main that end it when they throw (the 2FA
\* step has a try/catch of its own and does not), in the order they run
JobSteps ==
  <<"login", "navigation", "mids", "chips", "dates", "load", "export">>

\* summary.merchants of the scaffold: every merchant pending, no files
Pending(requested) == [j \in 1..requested |-> [status |-> "pending", files |-> <<>>]]

\* for (const m of summary.merchants) { m.status = 'ok'; m.files = [bulkPath] }
MarkFirst(merchants, bulkPath) ==
  [j \in 1..Len(merchants) |->
     IF j = 1 THEN [status |-> "ok", files |-> <<bulkPath>>] ELSE merchants[j]]

MarkAll(merchants, bulkPath) ==
  [j \in 1..Len(merchants) |-> [status |-> "ok", files |-> <<bulkPath>>]]

\* summarize(): the totals from the merchants
summarize(requested, merchants) ==
  LET ok == Cardinality({ j \in 1..Len(merchants) : merchants[j].status = "ok" })
      RECURSIVE Files(_)
      Files(j) == IF j = 0 THEN 0 ELSE Len(merchants[j].files) + Files(j - 1)
  IN  [requested |-> requested, succeeded |-> ok, failed |-> requested - ok,
       files |-> Files(Len(merchants)),
       unique_files |->
         Cardinality(UNION { { merchants[j].files[f] : f \in 1..Len(merchants[j].files) } :
                             j \in 1..Len(merchants) })]

\* where main goes on when a step of the try block throws: the finally
\* block, and the exception leaves main after it
AfterThrowLeaves(step) == "rejected"

AfterThrow(step) == "finally"

\* where main goes on after the steps of the try block up to the export:
\* the email only when exportCurrentAch returned
AfterStepsEmailAlways(stop) == "email"

AfterSteps(stop) == IF stop = "none" THEN "email" ELSE AfterThrow(stop)

\* the summary scaffold and chromium.launch
JobStart ==
  /\ tin.kind = "job"
  /\ tout.by = "unset"
  /\ \E launched \in BOOLEAN :
       tout' = [by |-> "main",
                at |-> IF launched THEN "open" ELSE "rejected",
                launched |-> launched, opened |-> FALSE,
                merchants |-> Pending(tin.requested),
                totals |-> [requested |-> tin.requested, succeeded |-> 0,
                            failed |-> 0, files |-> 0, unique_files |-> 0],
                failedAt |-> "none", exported |-> FALSE, emails |-> 0,
                email |-> "none", emailThrew |-> FALSE,
                summarized |-> FALSE, writes |-> 0, written |-> FALSE,
                contextCloses |-> 0, contextClosed |-> FALSE,
                browserCloses |-> 0, browserClosed |-> FALSE]
  /\ UNCHANGED <<tin, cfg, boxes, clock>>
  /\ UNCHANGED mainVars
  /\ UNCHANGED imapVars

\* browser.newContext, context.newPage and page.setDefaultTimeout, which
\* stand between the launch and the try
JobOpen ==
  /\ tout.by = "main"
  /\ tout.at = "open"
  /\ \E ok \in BOOLEAN :
       tout' = IF ok THEN [tout EXCEPT !.opened = TRUE, !.at = "try"]
               ELSE [tout EXCEPT !.at = "rejected"]
  /\ UNCHANGED <<tin, cfg, boxes, clock>>
  /\ UNCHANGED mainVars
  /\ UNCHANGED imapVars

\* the try block from loginWithRetries to the marking of the merchants:
\* stop is the step that throws, "none" when exportCurrentAch returned
\* bulkPath
JobTry ==
  /\ tout.by = "main"
  /\ tout.at = "try"
  /\ \E stop \in {JobSteps[j] : j \in 1..Len(JobSteps)} \cup {"none"} :
       tout' = IF stop = "none"
               THEN [tout EXCEPT !.exported = TRUE,
                                 !.merchants = MarkAll(@, "bulkPath"),
                                 !.at = AfterSteps(stop)]
               ELSE [tout EXCEPT !.failedAt = stop, !.at = AfterSteps(stop)]
  /\ UNCHANGED <<tin, cfg, boxes, clock>>
  /\ UNCHANGED mainVars
  /\ UNCHANGED imapVars

\* emailReport(fileArg): everything in one try/catch that logs, so it
\* returns on every path
EmailRun(to, exists, sendOk) ==
  IF ~to THEN [result |-> "no recipient", transports |-> 0, threw |-> FALSE]
  ELSE IF ~exists
  THEN [result |-> "no attachment", transports |-> 0, threw |-> FALSE]
  ELSE IF ~sendOk
  THEN [result |-> "transport error", transports |-> 1, threw |-> FALSE]
  ELSE [result |-> "sent", transports |-> 1, threw |-> FALSE]

\* try { await emailReport(bulkPath, ...) } catch (e) { console.warn(...) }
JobEmail ==
  /\ tout.by = "main"
  /\ tout.at = "email"
  /\ \E to \in BOOLEAN, exists \in BOOLEAN, sendOk \in BOOLEAN :
       LET run == EmailRun(to, exists, sendOk)
       IN  tout' = [tout EXCEPT !.emails = @ + 1, !.email = run.result,
                                !.emailThrew = run.threw, !.at = "finally"]
  /\ UNCHANGED <<tin, cfg, boxes, clock>>
  /\ UNCHANGED mainVars
  /\ UNCHANGED imapVars

\* the finally block: summarize(), fs.writeFileSync in its try/catch,
\* await context.close(), await browser.close(); then main resolves, or
\* rejects with the exception of the try block or of a close
JobFinally ==
  /\ tout.by = "main"
  /\ tout.at = "finally"
  /\ \E wrote \in BOOLEAN, contextOk \in BOOLEAN, browserOk \in BOOLEAN :
       tout' = [tout EXCEPT
                  !.totals = summarize(tout.totals.requested, tout.merchants),
                  !.summarized = TRUE,
                  !.writes = @ + 1,
                  !.written = wrote,
                  !.contextCloses = @ + 1,
                  !.contextClosed = contextOk,
                  !.browserCloses = IF contextOk THEN @ + 1 ELSE @,
                  !.browserClosed = contextOk /\ browserOk,
                  !.at = IF tout.failedAt = "none" /\ contextOk /\ browserOk
                         THEN "resolved" ELSE "rejected"]
  /\ UNCHANGED <<tin, cfg, boxes, clock>>
  /\ UNCHANGED mainVars
  /\ UNCHANGED imapVars

\* ---- the specification of the report steps

\* the merchant ids of one call, in the order of the merchants file
MidLists ==
  { <<a>> : a \in Mids } \cup { <<a, b>> : <<a, b>> \in { p \in Mids \X Mids : p[1] # p[2] } }

ReportInputs ==
  [kind : {"login"}, attempts : 0..MaxLogin]
  \cup [kind : {"mids"}, mids : MidLists,
        chips : SUBSET { ChipOf(mid) : mid \in Mids },
        retries : 0..MaxRetries, warnOnly : BOOLEAN, readOk : BOOLEAN]
  \cup [kind : {"export"}, children : 0..MaxChildFrames,
        selectors : 1..MaxSelectors]
  \cup [kind : {"job"}, requested : 1..MaxMerchants]

ReportInit ==
  /\ tin \in ReportInputs
  /\ tout = NoOut
  /\ cfg = TextConfig(DefaultCodeLen)
  /\ boxes = [b \in {"INBOX", "AllMail"} |-> [exists |-> TRUE, msgs |-> <<>>]]
  /\ clock = JobTime
  /\ pc = "exit"
  /\ challenge = FALSE
  /\ mfa = "unset"
  /\ submitted = <<>>
  /\ failedAt = "none"
  /\ exitCode = -1
  /\ ipc = "idle"
  /\ calls = 0
  /\ cutoffMs = 0
  /\ idx = 0
  /\ scanned = <<>>
  /\ fetched = <<>>
  /\ ret = NoRet
  /\ connected = FALSE
  /\ client = NewClient
  /\ waited = NoWait

ReportNext ==
  \/ LoginStart
  \/ LoginAttempt
  \/ LoginGiveUp
  \/ MidsStart
  \/ MidsFirstPass
  \/ MidsSweepStart
  \/ MidsSweep
  \/ MidsFinish
  \/ ExportStart
  \/ ExportLocate
  \/ ExportAttempt
  \/ ExportGiveUp
  \/ JobStart
  \/ JobOpen
  \/ JobTry
  \/ JobEmail
  \/ JobFinally

SpecReport == ReportInit /\ [][ReportNext]_vars

\* the places in the events of loginWithRetries where login(page) was called
LoginCalls(ev) == { j \in 1..Len(ev) : ev[j] \in {"ok", "fail"} }

\* C37: loginWithRetries calls login at most LOGIN_RETRIES times, calls
\* nothing after a login that succeeded, waits the backoff right before
\* every login but the first, throws only when every attempt was made and
\* failed, and then the error of the last of them, and returns only right
\* after a login that succeeded.
C37_LoginRetries ==
  tout.by = "loginWithRetries" =>
    LET ev == tout.events
    IN  /\ Cardinality(LoginCalls(ev)) <= tin.attempts
        /\ \A j \in 1..Len(ev) : ev[j] = "ok" => j = Len(ev)
        /\ \A j \in LoginCalls(ev) :
             IF \E h \in LoginCalls(ev) : h < j THEN ev[j - 1] = "wait" ELSE j = 1
        /\ tout.at = "thrown" =>
             /\ Cardinality(LoginCalls(ev)) = tin.attempts
             /\ \A j \in 1..Len(ev) : ev[j] # "ok"
             /\ tout.err = tin.attempts
        /\ tout.at = "returned" => ev # <<>> /\ ev[Len(ev)] = "ok"

\* three attempts failed, the last two after a wait, and the third error
\* was thrown
C37_Witness ==
  /\ tout.by = "loginWithRetries"
  /\ tout.at = "thrown"
  /\ tout.events = <<"fail", "wait", "fail", "wait", "fail">>
  /\ tout.err = 3

\* C32: addMidsToAchReport never types an id whose chip was shown when the
\* call started, nor an id that an earlier step of the same call confirmed
\* as a chip.
C32_Original ==
  tout.by = "addMidsToAchReport" =>
    \A j \in 1..Len(tout.log) :
      /\ ChipOf(tout.log[j].mid) \notin tin.chips
      /\ ~tout.log[j].known
      /\ \A h \in 1..(j - 1) :
           tout.log[h].mid = tout.log[j].mid => ~tout.log[h].ok

\* how often typeWaitClick was called for an id in one pass
Typings(mid, pass) ==
  Cardinality({ j \in 1..Len(tout.log) :
                  tout.log[j].mid = mid /\ tout.log[j].pass = pass })

\* the id was read off a chip at the start, or a typeWaitClick for it
\* answered that its chip is visible
Confirmed(mid) ==
  \/ tin.readOk /\ \E t \in tin.chips : ChipId(t) = mid
  \/ \E j \in 1..Len(tout.log) : tout.log[j].mid = mid /\ tout.log[j].ok

\* C36: with MID_FINAL_WARN_ONLY off, a normal return of addMidsToAchReport
\* means every requested id was on a chip at the start or was seen on a
\* chip after an add, and its chip is shown; an id is typed at most
\* retries+1 times in the first pass and at most retries+2 times in the
\* sweep; and the call throws exactly when an id is still missing after
\* the sweep.
C36_AllAddedOrThrow ==
  tout.by = "addMidsToAchReport" =>
    /\ \A mid \in Mids :
         /\ Typings(mid, "first") <= tin.retries + 1
         /\ Typings(mid, "sweep") <= tin.retries + 2
    /\ (tout.at = "returned" /\ ~tin.warnOnly) =>
         \A j \in 1..Len(tin.mids) :
           /\ ensureChip(tin.mids[j], tout.chips)
           /\ Confirmed(tin.mids[j]) \/ tin.mids[j] \in tout.existing
    /\ (tout.at \in {"returned", "thrown"} /\ ~tin.warnOnly) =>
         (tout.at = "thrown" <=>
            \E j \in 1..Len(tin.mids) :
              /\ ~Confirmed(tin.mids[j])
              /\ tin.mids[j] \notin tout.existing)

\* an id failed every attempt of the first pass, was added in the last
\* attempt of the sweep, and the call returned
C36_Witness ==
  /\ tout.by = "addMidsToAchReport"
  /\ tout.at = "returned"
  /\ ~tin.warnOnly
  /\ \E mid \in Mids :
       /\ Typings(mid, "first") = tin.retries + 1
       /\ Typings(mid, "sweep") = tin.retries + 2
       /\ Confirmed(mid)

\* the place of a strategy in the order the claim gives
StrategyRank(what) ==
  CASE what = "normal click" -> 1
    [] what = "data-url" -> 2
    [] what = "forced click" -> 3
    [] what = "script click" -> 4
    [] OTHER -> 0

\* C38: for a control that was found, exportCurrentAch runs normal click,
\* data-url navigation, forced click and script click in this order, each
\* only after the one before it gave no file; the first saved download ends
\* the call with its path and nothing is tried after it; and the call
\* throws only when every frame and selector of its list was looked for and
\* no strategy gave a file.
C38_StrategiesInOrder ==
  tout.by = "exportCurrentAch" =>
    LET log == tout.log
    IN  /\ \A j \in 1..Len(log) :
             log[j].what # "locate" =>
               /\ j > 1
               /\ log[j - 1].fi = log[j].fi /\ log[j - 1].si = log[j].si
               /\ IF log[j - 1].what = "locate"
                  THEN log[j - 1].got /\ StrategyRank(log[j].what) = 1
                  ELSE /\ ~log[j - 1].got
                       /\ StrategyRank(log[j].what) = StrategyRank(log[j - 1].what) + 1
        /\ \A j \in 1..Len(log) :
             (log[j].what # "locate" /\ log[j].got) =>
               j = Len(log) /\ tout.at = "returned" /\ tout.out = "outPath"
        /\ tout.at = "returned" =>
             log # <<>> /\ log[Len(log)].what # "locate" /\ log[Len(log)].got
        /\ tout.at = "thrown" =>
             /\ \A fi \in 1..Len(ExportFrames(tin.children)), si \in 1..tin.selectors :
                  \E j \in 1..Len(log) :
                    log[j].what = "locate" /\ log[j].fi = fi /\ log[j].si = si
             /\ \A j \in 1..Len(log) : log[j].what # "locate" => ~log[j].got

\* the first control found gave no file by click or data-url and the
\* forced click saved one
C38_Witness ==
  /\ tout.by = "exportCurrentAch"
  /\ tout.at = "returned"
  /\ Len(tout.log) = 4
  /\ tout.log[2].what = "normal click" /\ ~tout.log[2].got
  /\ tout.log[3].what = "data-url" /\ ~tout.log[3].got
  /\ tout.log[4].what = "forced click" /\ tout.log[4].got

\* C39: in one call of exportCurrentAch no frame and selector is looked
\* for twice.
C39_Original ==
  tout.by = "exportCurrentAch" =>
    \A j, h \in 1..Len(tout.log) :
      ( /\ tout.log[j].what = "locate" /\ tout.log[h].what = "locate"
        /\ tout.log[j].frame = tout.log[h].frame
        /\ tout.log[j].si = tout.log[h].si ) => j = h

\* main has ended: its promise resolved or rejected
JobOver == tout.by = "main" /\ tout.at \in {"resolved", "rejected"}

\* C34 as stated: once the browser is launched and the steps of main have
\* begun, whichever way main ends, the run summary is written and the
\* context and the browser are closed.
C34_Original ==
  (JobOver /\ tout.opened) =>
    tout.written /\ tout.contextClosed /\ tout.browserClosed

\* C34: once the context and the page are open, whichever way main ends
\* (the export returned, or a step from the login to the export threw), the
\* finally block has run: the totals were computed, the summary file was
\* written unless writeFileSync threw, context.close() was called, and
\* browser.close() was called exactly when context.close() had not thrown.
\* When newContext or newPage threw, nothing was written or closed.
C34_FinallyAlways ==
  JobOver =>
    IF tout.opened
    THEN /\ tout.summarized
         /\ tout.writes = 1
         /\ tout.contextCloses = 1
         /\ tout.browserCloses = (IF tout.contextClosed THEN 1 ELSE 0)
         /\ tout.browserClosed => tout.contextClosed
    ELSE /\ ~tout.summarized
         /\ tout.writes = 0
         /\ tout.contextCloses = 0 /\ tout.browserCloses = 0

\* the export threw, and the summary was written and both were closed
C34_Witness ==
  /\ JobOver
  /\ tout.failedAt = "export"
  /\ tout.written /\ tout.contextClosed /\ tout.browserClosed

\* C35: in the summary written at the end, succeeded + failed = requested,
\* succeeded counts the merchants marked ok, and the merchants are all ok
\* with the one export file when exportCurrentAch returned, all pending
\* with no file when it did not.
C35_AllOrNone ==
  (JobOver /\ tout.written) =>
    /\ tout.totals.succeeded + tout.totals.failed = tout.totals.requested
    /\ tout.totals.requested = tin.requested
    /\ tout.totals.succeeded = (IF tout.exported THEN tin.requested ELSE 0)
    /\ Len(tout.merchants) = tin.requested
    /\ \A j \in 1..Len(tout.merchants) :
         IF tout.exported
         THEN tout.merchants[j] = [status |-> "ok", files |-> <<"bulkPath">>]
         ELSE tout.merchants[j] = [status |-> "pending", files |-> <<>>]

\* two merchants, the export returned and the summary was written
C35_Witness ==
  /\ JobOver
  /\ tout.written
  /\ tout.exported
  /\ tin.requested = 2
  /\ tout.totals.succeeded = 2 /\ tout.totals.unique_files = 1

\* C40: emailReport is called only after exportCurrentAch returned a path
\* and at most once; whatever it met (no recipient, no attachment on disk,
\* a transport error), it returned, no step of main is marked failed, every
\* merchant stays ok, and main resolves unless closing the context or the
\* browser threw.
C40_EmailNeverFails ==
  (tout.by = "main" /\ tout.emails > 0) =>
    /\ tout.exported
    /\ tout.emails = 1
    /\ ~tout.emailThrew
    /\ tout.failedAt = "none"
    /\ \A j \in 1..Len(tout.merchants) : tout.merchants[j].status = "ok"
    /\ JobOver =>
         /\ tout.totals.succeeded = tin.requested
         /\ tout.at = "resolved" <=> (tout.contextClosed /\ tout.browserClosed)

\* the transport failed and main resolved with every merchant ok
C40_Witness ==
  /\ JobOver
  /\ tout.email = "transport error"
  /\ tout.at = "resolved"
  /\ tout.totals.succeeded = tin.requested

====
